---- MODULE Spec2Model ----
(***************************************************************************)
(* A model of psutil's Linux back end (psutil/_pslinux.py): the exception  *)
(* translator wrap_exceptions and the multi-step /proc readers             *)
(* Process.connections, Process.threads and Process.open_files, run        *)
(* against a process that may close descriptors, lose threads, exit and    *)
(* have its pid recycled while a call is in progress.                      *)
(*                                                                         *)
(* Python strings are sequences of one-character strings, so that slicing, *)
(* prefix tests, splitting and int() are computed as the code computes     *)
(* them.  A line of a protocol table is the list of its columns (the       *)
(* result of line.split()).                                                *)
(***************************************************************************)
EXTENDS Integers, Sequences, FiniteSets, TLC

(***************************************************************************)
(* Bounds of the model.                                                    *)
(***************************************************************************)
MaxIdent == 2       \* process identities that may own the pid in one run
MaxRows == 2        \* rows (over all the tables read) of one scan
MaxLines == 4       \* lines of a memory-map file

(***************************************************************************)
(* Python string helpers.                                                  *)
(***************************************************************************)
None == "None"

startswith(s, p) == Len(s) >= Len(p) /\ SubSeq(s, 1, Len(p)) = p

endswith(s, p) ==
    Len(s) >= Len(p) /\ SubSeq(s, Len(s) - Len(p) + 1, Len(s)) = p

DigitChars == <<"0", "1", "2", "3", "4", "5", "6", "7", "8", "9">>

IsDigit(c) == \E i \in 1..10 : DigitChars[i] = c

DigitVal(c) == (CHOOSE i \in 1..10 : DigitChars[i] = c) - 1

\* int(s) succeeds on a non-empty string of decimal digits
IsInt(s) == Len(s) > 0 /\ \A i \in 1..Len(s) : IsDigit(s[i])

RECURSIVE int(_)
int(s) ==
    IF Len(s) = 0 THEN 0
    ELSE 10 * int(SubSeq(s, 1, Len(s) - 1)) + DigitVal(s[Len(s)])

\* s < t in Python's string order, which list.sort() uses
RECURSIVE StrLess(_, _)
StrLess(s, t) ==
    IF Len(t) = 0 THEN FALSE
    ELSE IF Len(s) = 0 THEN TRUE
    ELSE IF s[1] = t[1] THEN StrLess(Tail(s), Tail(t))
    ELSE \E i, j \in 1..10 : DigitChars[i] = s[1] /\ DigitChars[j] = t[1] /\ i < j

\* the sorted list of a set of digit strings
RECURSIVE SortedSeq(_)
SortedSeq(S) ==
    IF S = {} THEN <<>>
    ELSE LET m == CHOOSE x \in S : \A y \in S \ {x} : StrLess(x, y)
         IN <<m>> \o SortedSeq(S \ {m})

\* every ordering of a finite set, as os.listdir() may return it
RECURSIVE Orderings(_)
Orderings(S) ==
    IF S = {} THEN {<<>>}
    ELSE UNION {{<<x>> \o o : o \in Orderings(S \ {x})} : x \in S}

(***************************************************************************)
(* Exceptions and outcomes of a call.                                      *)
(***************************************************************************)
ENOENT == "ENOENT"
ESRCH == "ESRCH"
EPERM == "EPERM"
EACCES == "EACCES"
EIO == "EIO"

\* IOError and OSError are the subclasses of EnvironmentError
EnvironmentError == {"OSError", "IOError"}

Return(v) == [type |-> "return", value |-> v]

Raise(cls, en) == [type |-> "raise", exc |-> cls, errno |-> en]

NoSuchProcess(p, n) == [type |-> "raise", exc |-> "NoSuchProcess", pid |-> p, name |-> n]

AccessDenied(p, n) == [type |-> "raise", exc |-> "AccessDenied", pid |-> p, name |-> n]

NoResult == [type |-> "none"]

\* a mutant of the translator: ESRCH is not recognised as "process gone"
wrap_exceptions_noESRCH(out, p, n) ==
    IF out.type = "raise" /\ out.exc \in EnvironmentError
    THEN IF out.errno \in {ENOENT} THEN NoSuchProcess(p, n)
         ELSE IF out.errno \in {EPERM, EACCES} THEN AccessDenied(p, n)
         ELSE out
    ELSE out

\* wrap_exceptions: what the wrapper makes of the outcome of the wrapped
\* function, for the handle with pid p and cached name n
wrap_exceptions(out, p, n) ==
    IF out.type = "raise" /\ out.exc \in EnvironmentError
    THEN IF out.errno \in {ENOENT, ESRCH} THEN NoSuchProcess(p, n)
         ELSE IF out.errno \in {EPERM, EACCES} THEN AccessDenied(p, n)
         ELSE out
    ELSE out

(***************************************************************************)
(* More string helpers: find, split, hexadecimal.                          *)
(***************************************************************************)
\* the 1-based index of the first c in s at or after position i, 0 when
\* there is none
RECURSIVE find_from(_, _, _)
find_from(s, c, i) ==
    IF i > Len(s) THEN 0 ELSE IF s[i] = c THEN i ELSE find_from(s, c, i + 1)

\* Python's s.find(c) + 1
find(s, c) == find_from(s, c, 1)

\* s.split(c) for a one-character separator c
RECURSIVE split(_, _)
split(s, c) ==
    LET i == find(s, c)
    IN IF i = 0 THEN <<s>>
       ELSE <<SubSeq(s, 1, i - 1)>> \o split(SubSeq(s, i + 1, Len(s)), c)

HexChars == <<"0", "1", "2", "3", "4", "5", "6", "7", "8", "9", "A", "B", "C", "D", "E", "F">>

HexDigit == [c \in {HexChars[i] : i \in 1..16} |-> (CHOOSE i \in 1..16 : HexChars[i] = c) - 1]

HexVal(c) == HexDigit[c]

\* int(s, 16)
RECURSIVE int16(_)
int16(s) ==
    IF Len(s) = 0 THEN 0
    ELSE 16 * int16(SubSeq(s, 1, Len(s) - 1)) + HexVal(s[Len(s)])

\* base64.b16decode(s): one byte for every two hexadecimal digits
b16decode(s) == [i \in 1..(Len(s) \div 2) |-> 16 * HexVal(s[2 * i - 1]) + HexVal(s[2 * i])]

\* b[::-1]
Reversed(b) == [i \in 1..Len(b) |-> b[Len(b) + 1 - i]]

\* a mutant of the word swap: the sixteen bytes are reversed as a whole
SwapWords_whole(b) == [i \in 1..Len(b) |-> b[Len(b) + 1 - i]]

\* struct.pack('>4I', *struct.unpack('<4I', b)): the bytes of every 4-byte
\* word in reverse order
SwapWords(b) == [i \in 1..Len(b) |-> b[4 * ((i - 1) \div 4) + 4 - ((i - 1) % 4)]]

(***************************************************************************)
(* Sockets, connection records, address decoding.                          *)
(***************************************************************************)
AF_INET == "AF_INET"
AF_INET6 == "AF_INET6"
AF_UNIX == "AF_UNIX"
SOCK_STREAM == 1
SOCK_DGRAM == 2
\* None where a socket type is expected (the unix triple): socket types are
\* numbers, and no socket type is 0
NO_TYPE == 0

CONN_NONE == "NONE"

\* the keys of TCP_STATUSES
TcpCodes ==
    {<<"0", "1">>, <<"0", "2">>, <<"0", "3">>, <<"0", "4">>, <<"0", "5">>, <<"0", "6">>,
     <<"0", "7">>, <<"0", "8">>, <<"0", "9">>, <<"0", "A">>, <<"0", "B">>}

TCP_STATUSES ==
    [c \in TcpCodes |->
        CASE c = <<"0", "1">> -> "ESTABLISHED"
          [] c = <<"0", "2">> -> "SYN_SENT"
          [] c = <<"0", "3">> -> "SYN_RECV"
          [] c = <<"0", "4">> -> "FIN_WAIT1"
          [] c = <<"0", "5">> -> "FIN_WAIT2"
          [] c = <<"0", "6">> -> "TIME_WAIT"
          [] c = <<"0", "7">> -> "CLOSE"
          [] c = <<"0", "8">> -> "CLOSE_WAIT"
          [] c = <<"0", "9">> -> "LAST_ACK"
          [] c = <<"0", "A">> -> "LISTEN"
          [] c = <<"0", "B">> -> "CLOSING"]

\* socket.inet_ntop: the printed address, kept as its numbers: the four
\* bytes of an IPv4 address, the eight 16-bit groups of an IPv6 address
inet_ntop(family, b) ==
    IF family = AF_INET THEN b
    ELSE [i \in 1..(Len(b) \div 2) |-> 256 * b[2 * i - 1] + b[2 * i]]

\* a mutant of the decoder: a zero port is paired with an empty address
_decode_address_zero_pair(addr, family, sys_byteorder) ==
    LET parts == split(addr, ":")
        ip == parts[1]
        port == int16(parts[2])
    IN IF port = 0 THEN <<<<>>, 0>>
       ELSE IF family = AF_INET
       THEN IF sys_byteorder = "little"
            THEN <<inet_ntop(family, Reversed(b16decode(ip))), port>>
            ELSE <<inet_ntop(family, b16decode(ip)), port>>
       ELSE IF sys_byteorder = "little"
            THEN <<inet_ntop(AF_INET6, SwapWords(b16decode(ip))), port>>
            ELSE <<inet_ntop(AF_INET6, b16decode(ip)), port>>

\* Process._decode_address on a host of the given sys.byteorder
_decode_address(addr, family, sys_byteorder) ==
    LET parts == split(addr, ":")
        ip == parts[1]
        port == int16(parts[2])
    IN IF port = 0 THEN <<>>
       ELSE IF family = AF_INET
       THEN IF sys_byteorder = "little"
            THEN <<inet_ntop(family, Reversed(b16decode(ip))), port>>
            ELSE <<inet_ntop(family, b16decode(ip)), port>>
       ELSE IF sys_byteorder = "little"
            THEN <<inet_ntop(AF_INET6, SwapWords(b16decode(ip))), port>>
            ELSE <<inet_ntop(AF_INET6, b16decode(ip)), port>>

\* the address columns the tables of the model hold
A4_LOCAL == <<"0", "1", "0", "0", "0", "0", "7", "F", ":", "0", "0", "5", "0">>
A4_PEER == <<"0", "5", "0", "0", "0", "0", "0", "A", ":", "0", "0", "1", "6">>
A4_ZERO == <<"0", "0", "0", "0", "0", "0", "0", "0", ":", "0", "0", "0", "0">>
A6_LOCAL == <<"0", "0", "0", "0", "0", "0", "0", "0", "0", "0", "0", "0", "0", "0", "0", "0", "0", "0", "0", "0", "0", "0", "0", "0", "0", "1", "0", "0", "0", "0", "0", "0", ":", "1", "F", "9", "0">>
A6_PEER == <<"0", "0", "0", "0", "0", "0", "0", "0", "0", "0", "0", "0", "0", "0", "0", "0", "F", "F", "F", "F", "0", "0", "0", "0", "0", "1", "0", "0", "0", "0", "7", "F", ":", "9", "E", "4", "9">>
A6_ZERO == <<"0", "0", "0", "0", "0", "0", "0", "0", "0", "0", "0", "0", "0", "0", "0", "0", "0", "0", "0", "0", "0", "0", "0", "0", "0", "0", "0", "0", "0", "0", "0", "0", ":", "0", "0", "0", "0">>

AddressColumns == {A4_LOCAL, A4_PEER, A4_ZERO, A6_LOCAL, A6_PEER, A6_ZERO}

decode_args(a) == _decode_address(a[1], a[2], a[3])

\* the function that maps every argument triple of S to what _decode_address
\* makes of it, as an explicit table
RECURSIVE decode_table(_)
decode_table(S) ==
    IF S = {} THEN <<>>
    ELSE LET x == CHOOSE y \in S : TRUE
         IN (x :> decode_args(x)) @@ decode_table(S \ {x})

\* _decode_address on the address columns of the model, evaluated once
decoded_address ==
    decode_table(AddressColumns \X {AF_INET, AF_INET6} \X {"little", "big"})

nt_proc_conn(fd, family, type_, laddr, raddr, status) ==
    [fd |-> fd, family |-> family, type |-> type_, laddr |-> laddr, raddr |-> raddr,
     status |-> status]

(***************************************************************************)
(* Paths of the proc file system.                                          *)
(***************************************************************************)
\* "%s" % n for a natural number n
RECURSIVE str(_)
str(n) == IF n < 10 THEN <<DigitChars[n + 1]>> ELSE str(n \div 10) \o <<DigitChars[(n % 10) + 1]>>

ProcPath(p) == <<"/", "p", "r", "o", "c", "/">> \o str(p)

FdDirPath(p) == ProcPath(p) \o <<"/", "f", "d">>

FdPath(p, fd) == FdDirPath(p) \o <<"/">> \o fd

NetPath(f) == <<"/", "p", "r", "o", "c", "/", "n", "e", "t", "/">> \o f

(***************************************************************************)
(* The kind table of Process.connections.                                  *)
(***************************************************************************)
tcp4 == [file |-> <<"t", "c", "p">>, family |-> AF_INET, type |-> SOCK_STREAM]
tcp6 == [file |-> <<"t", "c", "p", "6">>, family |-> AF_INET6, type |-> SOCK_STREAM]
udp4 == [file |-> <<"u", "d", "p">>, family |-> AF_INET, type |-> SOCK_DGRAM]
udp6 == [file |-> <<"u", "d", "p", "6">>, family |-> AF_INET6, type |-> SOCK_DGRAM]
unix == [file |-> <<"u", "n", "i", "x">>, family |-> AF_UNIX, type |-> NO_TYPE]

ValidKinds ==
    {"all", "tcp", "tcp4", "tcp6", "udp", "udp4", "udp6", "unix", "inet", "inet4", "inet6"}

tmap ==
    [k \in ValidKinds |->
        CASE k = "all" -> <<tcp4, tcp6, udp4, udp6, unix>>
          [] k = "tcp" -> <<tcp4, tcp6>>
          [] k = "tcp4" -> <<tcp4>>
          [] k = "tcp6" -> <<tcp6>>
          [] k = "udp" -> <<udp4, udp6>>
          [] k = "udp4" -> <<udp4>>
          [] k = "udp6" -> <<udp6>>
          [] k = "unix" -> <<unix>>
          [] k = "inet" -> <<tcp4, tcp6, udp4, udp6>>
          [] k = "inet4" -> <<tcp4, udp4>>
          [] k = "inet6" -> <<tcp6, udp6>>]

(***************************************************************************)
(* Process.connections.process: the scan of one protocol table.  A table   *)
(* file f is [state, lines]: state is "ok" or the errno open() fails with, *)
(* lines are the header line and the rows, each the list of its columns.   *)
(***************************************************************************)
\* a mutant of the dict assignment: a key that is there keeps its value
Put_keep(d, k, v) ==
    IF k \in DOMAIN d THEN d
    ELSE [x \in (DOMAIN d) \cup {k} |-> IF x = k THEN v ELSE d[x]]

\* d[k] = v on a dict
Put(d, k, v) == [x \in (DOMAIN d) \cup {k} |-> IF x = k THEN v ELSE d[x]]

\* a mutant of the status column: every record gets the no-status marker
conn_status_none(type_, code) == CONN_NONE

\* the status of a record of an IP table
conn_status(type_, code) == IF type_ = SOCK_STREAM THEN TCP_STATUSES[code] ELSE CONN_NONE

\* "if inode in inodes"
row_matches(inode, inodes) == inode \in DOMAIN inodes

\* the record of a matching row of an IP table
inet_conn(line, family, type_, inodes, byteorder) ==
    nt_proc_conn(int(inodes[line[10]]), family, type_,
                 decoded_address[<<line[2], family, byteorder>>],
                 decoded_address[<<line[3], family, byteorder>>],
                 conn_status(type_, line[4]))

\* the record of a matching row of the UNIX table
unix_conn(tokens, family, inodes) ==
    nt_proc_conn(int(inodes[tokens[7]]), family, int(tokens[5]),
                 IF Len(tokens) = 8 THEN tokens[Len(tokens)] ELSE <<>>,
                 None, CONN_NONE)

\* the loop over the rows of an open table: the rows still to read and the
\* records appended so far
RECURSIVE scan_lines(_, _, _, _, _, _)
scan_lines(lines, family, type_, inodes, byteorder, retlist) ==
    IF lines = <<>> THEN Return(retlist)
    ELSE LET line == Head(lines) IN
      IF family \in {AF_INET, AF_INET6}
      THEN IF Len(line) < 10 THEN Raise("ValueError", None)
           ELSE IF row_matches(line[10], inodes)
           THEN IF type_ = SOCK_STREAM /\ line[4] \notin DOMAIN TCP_STATUSES
                THEN Raise("KeyError", None)
                ELSE scan_lines(Tail(lines), family, type_, inodes, byteorder,
                                Append(retlist, inet_conn(line, family, type_, inodes, byteorder)))
           ELSE scan_lines(Tail(lines), family, type_, inodes, byteorder, retlist)
      ELSE IF family = AF_UNIX
      THEN IF Len(line) < 7 THEN Raise("ValueError", None)
           ELSE IF row_matches(line[7], inodes)
           THEN IF ~IsInt(line[5]) THEN Raise("ValueError", None)
                ELSE scan_lines(Tail(lines), family, type_, inodes, byteorder,
                                Append(retlist, unix_conn(line, family, inodes)))
           ELSE scan_lines(Tail(lines), family, type_, inodes, byteorder, retlist)
      ELSE Raise("ValueError", None)

\* a mutant of f.close(): the file stays open
f_close_never(open, f) == open

\* f.close()
f_close(open, f) == open \ {f}

\* the open files after process(file, family, type_): a table that opened
\* is closed by the finally of its try, whatever the rows did
process_handles(open, file, f) ==
    IF f.state # "ok" THEN open ELSE f_close(open \cup {file}, file)

\* a mutant of process: a table that does not exist is a failure, IPv6 or not
process_strict(file, family, type_, f, inodes, byteorder) ==
    IF f.state # "ok" THEN Raise("IOError", f.state)
    ELSE scan_lines(IF f.lines = <<>> THEN <<>> ELSE Tail(f.lines),
                    family, type_, inodes, byteorder, <<>>)

\* process(file, family, type_) on the table file f
process(file, family, type_, f, inodes, byteorder) ==
    IF f.state # "ok"
    THEN IF f.state = ENOENT /\ endswith(file, <<"6">>) THEN Return(<<>>)
         ELSE Raise("IOError", f.state)
    ELSE scan_lines(IF f.lines = <<>> THEN <<>> ELSE Tail(f.lines),
                    family, type_, inodes, byteorder, <<>>)

\* a mutant of the loop over the tables: the tables are scanned last to first
RECURSIVE scan_tables_reversed(_, _, _, _, _)
scan_tables_reversed(triples, files, inodes, byteorder, ret) ==
    IF triples = <<>> THEN [out |-> Return(ret), opened |-> {}]
    ELSE LET n == Len(triples)
             r == process(NetPath(triples[n].file), triples[n].family, triples[n].type,
                          files[n], inodes, byteorder)
         IN IF r.type = "raise" THEN [out |-> r, opened |-> {triples[n].file}]
            ELSE LET rest == scan_tables_reversed(SubSeq(triples, 1, n - 1),
                                 SubSeq(files, 1, n - 1), inodes, byteorder, ret \o r.value)
                 IN [out |-> rest.out, opened |-> rest.opened \cup {triples[n].file}]

\* "for f, family, type_ in tmap[kind]: ret += process(...)": the outcome
\* of the loop and the tables it tried to open
RECURSIVE scan_tables(_, _, _, _, _)
scan_tables(triples, files, inodes, byteorder, ret) ==
    IF triples = <<>> THEN [out |-> Return(ret), opened |-> {}]
    ELSE LET t == Head(triples)
             r == process(NetPath(t.file), t.family, t.type, Head(files), inodes, byteorder)
         IN IF r.type = "raise" THEN [out |-> r, opened |-> {t.file}]
            ELSE LET rest == scan_tables(Tail(triples), Tail(files), inodes, byteorder,
                                         ret \o r.value)
                 IN [out |-> rest.out, opened |-> rest.opened \cup {t.file}]

(***************************************************************************)
(* The inputs of the model: descriptors, link targets, table rows.         *)
(***************************************************************************)
Pids == {7, 42}

FdNames == {<<"3">>, <<"1", "2">>}

I101 == <<"1", "0", "1">>
I102 == <<"1", "0", "2">>

SocketPrefix == <<"s", "o", "c", "k", "e", "t", ":", "[">>

SocketLink(ino) == SocketPrefix \o ino \o <<"]">>

FileLink == <<"/", "f">>

\* a descriptor that is not open
NoFd == <<>>

FdTargets == {SocketLink(I101), SocketLink(I102), FileLink}

Header == <<<<"s", "l">>>>

\* sl local_address rem_address st tx_queue:rx_queue tr:tm->when retrnsmt
\* uid timeout inode, and the columns that follow the inode
InetRow(laddr, raddr, st, ino) ==
    <<<<"0", ":">>, laddr, raddr, st, <<"0", ":", "0">>, <<"0", ":", "0">>, <<"0">>, <<"0">>, <<"0">>, ino,
      <<"1">>>>

\* Num RefCount Protocol Flags Type St Inode [Path]
UnixRow(type_, ino) ==
    <<<<"0", ":">>, <<"2">>, <<"0">>, <<"0">>, type_, <<"0", "1">>, ino>>

RowsOf(file) ==
    CASE file = tcp4.file ->
           {InetRow(A4_LOCAL, A4_ZERO, <<"0", "A">>, I101),
            InetRow(A4_LOCAL, A4_PEER, <<"0", "1">>, I102)}
      [] file = tcp6.file ->
           {InetRow(A6_LOCAL, A6_ZERO, <<"0", "A">>, I101),
            InetRow(A6_LOCAL, A6_PEER, <<"0", "6">>, I102)}
      [] file = udp4.file ->
           {InetRow(A4_LOCAL, A4_ZERO, <<"0", "7">>, I101),
            InetRow(A4_LOCAL, A4_PEER, <<"0", "1">>, I102)}
      [] file = udp6.file ->
           {InetRow(A6_LOCAL, A6_ZERO, <<"0", "7">>, I101),
            InetRow(A6_LOCAL, A6_PEER, <<"0", "1">>, I102)}
      [] file = unix.file ->
           {UnixRow(<<"0", "0", "0", "1">>, I101) \o <<<<"/", "s">>>>,
            UnixRow(<<"0", "0", "0", "2">>, I102)}

\* the lists of at most n distinct rows of a set
RowSeqs(R, n) == UNION {Orderings(X) : X \in {Y \in SUBSET R : Cardinality(Y) <= n}}

\* the states a table file can be in when at most n rows may be read: an
\* IPv6 table does not exist on a host without IPv6; with fault, the file
\* may also be missing or unreadable
TableFiles(file, n, ipv6, fault) ==
    IF ~ipv6 /\ endswith(file, <<"6">>) THEN {[state |-> ENOENT, lines |-> <<>>]}
    ELSE {[state |-> "ok", lines |-> <<Header>> \o rows] : rows \in RowSeqs(RowsOf(file), n)}
         \cup (IF fault
               THEN {[state |-> ENOENT, lines |-> <<>>], [state |-> EACCES, lines |-> <<>>]}
               ELSE {})

\* the table files one scan of the given triples can meet: at most n rows
\* in all and, with fault, at most one table missing or unreadable
RECURSIVE ScanInputs(_, _, _, _)
ScanInputs(triples, n, ipv6, fault) ==
    IF triples = <<>> THEN {<<>>}
    ELSE UNION {{<<f>> \o rest :
                   rest \in ScanInputs(Tail(triples),
                                       IF f.state = "ok" THEN n - (Len(f.lines) - 1) ELSE n,
                                       ipv6,
                                       fault /\ (f.state = "ok" \/ ~ipv6))} :
                f \in TableFiles(Head(triples).file, n, ipv6, fault)}

(***************************************************************************)
(* The stat file of a thread, and how Process.threads reads it.            *)
(***************************************************************************)
CLOCK_TICKS == 100

IsSpace(c) == c \in {" ", "\n", "\t"}

\* s.strip()
RECURSIVE strip(_)
strip(s) ==
    IF Len(s) = 0 THEN s
    ELSE IF IsSpace(s[1]) THEN strip(Tail(s))
    ELSE IF IsSpace(s[Len(s)]) THEN strip(SubSeq(s, 1, Len(s) - 1))
    ELSE s

\* sep.join(fields)
RECURSIVE join(_, _)
join(fields, sep) ==
    IF Len(fields) = 0 THEN <<>>
    ELSE IF Len(fields) = 1 THEN fields[1]
    ELSE fields[1] \o sep \o join(Tail(fields), sep)

\* the line of /proc/<pid>/task/<tid>/stat: pid (comm) state ppid pgrp
\* session tty_nr tpgid flags minflt cminflt majflt cmajflt utime stime
\* cutime cstime priority nice num_threads itrealvalue starttime
StatLine(tid, comm, tty_nr, utime, stime, starttime) ==
    tid \o <<" ", "(">> \o comm \o <<")", " ">> \o
    join(<<<<"S">>, <<"1">>, <<"1">>, <<"1">>, tty_nr, <<"0">>, <<"0">>, <<"0">>, <<"0">>,
           <<"0">>, <<"0">>, utime, stime, <<"0">>, <<"0">>, <<"0">>, <<"0">>, <<"1">>,
           <<"0">>, starttime>>, <<" ">>) \o <<"\n">>

nt_proc_thread(id, utime, stime) == [id |-> id, user_time |-> utime, system_time |-> stime]

\* float(v) / CLOCK_TICKS, kept as the fraction it is
ticks(v) == [num |-> int(v), den |-> CLOCK_TICKS]

\* threads: from the text of a stat file to (utime, stime)
thread_times(text) ==
    LET st == strip(text)
        values == split(SubSeq(st, find(st, ")") + 2, Len(st)), " ")
    IN IF Len(values) < 13 THEN Raise("IndexError", None)
       ELSE IF ~IsInt(values[12]) \/ ~IsInt(values[13]) THEN Raise("ValueError", None)
       ELSE Return(<<ticks(values[12]), ticks(values[13])>>)

nt_proc_file(path, fd) == [path |-> path, fd |-> fd]

DirLink == <<"/", "d">>

\* isfile_strict(path): the path is a regular file
isfile_strict(path) == path \in {FileLink}

\* the table files a scan for each kind can meet, within the bounds
KindInputs ==
    [k \in ValidKinds |->
        ScanInputs(tmap[k], MaxRows, TRUE, FALSE) \cup ScanInputs(tmap[k], MaxRows, FALSE, FALSE)]

\* the same, with one table missing or unreadable
FaultyKindInputs ==
    [k \in ValidKinds |->
        ScanInputs(tmap[k], MaxRows, TRUE, TRUE) \cup ScanInputs(tmap[k], MaxRows, FALSE, TRUE)]

(***************************************************************************)
(* State.                                                                  *)
(***************************************************************************)
VARIABLES
    pid,         \* Process.pid of the handle
    name,        \* Process._name of the handle
    byteorder,   \* sys.byteorder of the host
    alive,       \* /proc/<pid> exists
    ident,       \* which process owns the pid: 1 is the first, 2 the next, ...
    fdtab,       \* /proc/<pid>/fd: the link target of every descriptor
    tasks,       \* /proc/<pid>/task: the thread ids
    pc,          \* where the call is: "idle", a step of the call, "done"
    op,          \* the accessor called
    kind,        \* the kind argument of connections
    listing,     \* the entries of the listed directory still to visit
    inodes,      \* the inode -> descriptor dict of connections
    ret,         \* the list built so far
    hit_enoent,  \* threads, open_files: an entry had vanished
    fident,      \* threads: the process the open stat file belongs to
    raw,         \* what the wrapped function returned or raised
    result,      \* what the caller gets
    touched,     \* the paths the call has listed, resolved, opened or stat'ed
    gens,        \* the processes whose directories and links went into the result
    net,         \* the table files the scan tried to open, by table name
    links,       \* what every os.readlink of the call found, in call order
    arg,         \* the input of the call: the content of the files it reads
    handles,     \* the files the call has opened and not closed
    data,        \* memory_maps: the dict of the statistics read so far
    current_block \* memory_maps: the list holding the header of the block read

vars == <<pid, name, byteorder, alive, ident, fdtab, tasks, pc, op, kind, listing, inodes,
          ret, hit_enoent, fident, raw, result, touched, gens, net, links, arg, handles,
          data, current_block>>

handle == <<pid, name, byteorder>>
proc == <<alive, ident, fdtab, tasks>>
mmvars == <<arg, data, current_block>>
locals == <<listing, inodes, ret, hit_enoent, fident, touched, gens, net, links, mmvars, handles>>

\* the command name of the process that owns the pid
CommOf(id) ==
    IF "stat" \in DOMAIN arg THEN arg.stat.comm
    ELSE IF id = 1 THEN <<"a", "b">> ELSE <<"c", "d">>

\* what the kernel shows for a thread of that process: the CPU ticks tell
\* the processes apart
ThreadStat(id, tid) ==
    StatLine(tid, CommOf(id), <<"0">>, str(10 * id), str(10 * id + 1), str(5 * id))

MainTid(p) == str(p)

\* the descriptor tables of the process the handle was made for
FdTabs == [FdNames -> FdTargets \cup {NoFd}]

\* the descriptor tables of a process that takes the pid over
RecycledFdTabs == {[fd \in FdNames |-> t] : t \in {SocketLink(I102), FileLink}}

\* the call still reads the descriptor directory: only then can it see
\* what the process does to its descriptors
ReadsFds == pc \in {"readlink", "islink", "oreadlink"}

\* a call is in progress: the process is followed from its first step to
\* its end (what happened before is the initial state)
InCall == pc \notin {"idle", "done"}

\* Process.__init__ (which does not look at /proc), before a call whose
\* input is one of args; the process may be alive or not
InitCallWith(args) ==
    /\ name = None
    /\ ident = 1
    /\ pc = "idle"
    /\ op = None
    /\ kind = None
    /\ listing = <<>>
    /\ inodes = <<>>
    /\ ret = <<>>
    /\ hit_enoent = FALSE
    /\ fident = 0
    /\ raw = NoResult
    /\ result = NoResult
    /\ touched = {}
    /\ gens = {}
    /\ net = <<>>
    /\ links = <<>>
    /\ arg \in args
    /\ handles = {}
    /\ data = <<>>
    /\ current_block = <<>>

InitCall ==
    /\ alive \in BOOLEAN
    /\ InitCallWith({<<>>})

Init ==
    /\ pid = 42
    /\ byteorder = "little"
    /\ InitCall
    /\ fdtab \in IF alive THEN FdTabs ELSE {[fd \in FdNames |-> NoFd]}
    /\ tasks = IF alive THEN {MainTid(pid)} ELSE {}

\* the end of a call: the wrapper sees the outcome of the wrapped function
Finish(out) ==
    /\ raw' = out
    /\ result' = wrap_exceptions(out, pid, name)
    /\ pc' = "done"

(***************************************************************************)
(* The process behind the pid, while a call is followed.                   *)
(***************************************************************************)
\* the process exits: /proc/<pid> disappears
Exit ==
    /\ InCall
    /\ alive
    /\ alive' = FALSE
    /\ fdtab' = [fd \in FdNames |-> NoFd]
    /\ tasks' = {}
    /\ UNCHANGED <<ident, handle, pc, op, kind, raw, result, locals>>

\* the pid is given to a new process
Recycle(newfds, newtasks) ==
    /\ InCall
    /\ ~alive
    /\ ident < MaxIdent
    /\ alive' = TRUE
    /\ ident' = ident + 1
    /\ fdtab' = newfds
    /\ tasks' = newtasks
    /\ UNCHANGED <<handle, pc, op, kind, raw, result, locals>>

\* the process closes a descriptor
CloseFd(fd) ==
    /\ ReadsFds
    /\ alive
    /\ fdtab[fd] # NoFd
    /\ fdtab' = [fdtab EXCEPT ![fd] = NoFd]
    /\ UNCHANGED <<alive, ident, tasks, handle, pc, op, kind, raw, result, locals>>

(***************************************************************************)
(* System calls on the process directory.                                  *)
(***************************************************************************)
\* a mutant of the liveness check: the directory is always found
os_stat_found(exists) == Return(None)

\* os.stat('/proc/%s' % self.pid)
os_stat(exists) == IF exists THEN Return(None) ELSE Raise("OSError", ENOENT)

\* os.readlink of a descriptor entry
os_readlink(exists, target) == IF exists THEN Return(target) ELSE Raise("OSError", ENOENT)

(***************************************************************************)
(* Process.connections(kind).                                              *)
(***************************************************************************)
Kinds == ValidKinds \cup {"bogus"}

\* a mutant of the handler around os.readlink: nothing is caught
readlink_caught_never(out) == FALSE

\* "except OSError: continue"
readlink_caught(out) == out.type = "raise" /\ out.exc = "OSError"

\* a mutant of the early return: the dict is never taken for empty
no_inodes_never(d) == FALSE

\* "if not inodes"
no_inodes(d) == DOMAIN d = {}

\* os.listdir("/proc/%s/fd" % self.pid)
conn_listdir(k) ==
    /\ pc = "idle"
    /\ op' = "connections"
    /\ kind' = k
    /\ touched' = touched \cup {FdDirPath(pid)}
    /\ IF alive
       THEN /\ \E order \in Orderings({fd \in FdNames : fdtab[fd] # NoFd}) :
                 /\ listing' = order
                 /\ pc' = IF order = <<>> THEN "scan" ELSE "readlink"
            /\ gens' = {ident}
            /\ UNCHANGED <<raw, result>>
       ELSE /\ Finish(Raise("OSError", ENOENT))
            /\ UNCHANGED <<listing, gens>>
    /\ UNCHANGED <<handle, proc, mmvars, handles, inodes, ret, hit_enoent, fident, net, links>>

\* one turn of the loop over the listed descriptors: os.readlink, the
\* handler that skips the entry, the dict entry when the target is a socket
conn_readlink ==
    /\ pc = "readlink"
    /\ op = "connections"
    /\ LET fd == Head(listing)
           r == os_readlink(alive /\ fdtab[fd] # NoFd, fdtab[fd])
       IN /\ touched' = touched \cup {FdPath(pid, fd)}
          /\ links' = Append(links, [fd |-> fd,
                                     target |-> IF r.type = "raise" THEN NoFd ELSE r.value])
          /\ IF r.type = "raise" /\ ~readlink_caught(r)
             THEN /\ Finish(r)
                  /\ UNCHANGED <<inodes, gens, listing>>
             ELSE /\ IF r.type = "return" /\ startswith(r.value, SocketPrefix)
                     THEN /\ inodes' = Put(inodes, SubSeq(r.value, 9, Len(r.value) - 1), fd)
                          /\ gens' = gens \cup {ident}
                     ELSE UNCHANGED <<inodes, gens>>
                  /\ listing' = Tail(listing)
                  /\ pc' = IF Tail(listing) = <<>> THEN "scan" ELSE "readlink"
                  /\ UNCHANGED <<raw, result>>
    /\ UNCHANGED <<handle, proc, mmvars, handles, op, kind, ret, hit_enoent, fident, net>>

\* "if not inodes: return []", the kind table, the loop over the tables,
\* which meet one of the given table files
conn_scan_on(inputs) ==
    /\ pc = "scan"
    /\ op = "connections"
    /\ IF no_inodes(inodes)
       THEN /\ Finish(Return(<<>>))
            /\ UNCHANGED <<ret, touched, net, handles>>
       ELSE IF kind \notin DOMAIN tmap
       THEN /\ Finish(Raise("ValueError", None))
            /\ UNCHANGED <<ret, touched, net, handles>>
       ELSE \E files \in inputs[kind] :
              LET r == scan_tables(tmap[kind], files, inodes, byteorder, <<>>)
              IN /\ net' = [f \in r.opened |->
                             files[CHOOSE i \in 1..Len(files) : tmap[kind][i].file = f]]
                 /\ touched' = touched \cup {NetPath(f) : f \in r.opened}
                 /\ handles' = handles \cup UNION {process_handles(handles, NetPath(f), net'[f]) :
                                                     f \in r.opened}
                 /\ IF r.out.type = "raise"
                    THEN /\ Finish(r.out)
                         /\ UNCHANGED ret
                    ELSE /\ ret' = r.out.value
                         /\ pc' = "stat"
                         /\ UNCHANGED <<raw, result>>
    /\ UNCHANGED <<handle, proc, mmvars, op, kind, listing, inodes, hit_enoent, fident, gens, links>>

conn_scan == conn_scan_on(KindInputs)

\* os.stat('/proc/%s' % self.pid); return ret
conn_stat ==
    /\ pc = "stat"
    /\ op = "connections"
    /\ touched' = touched \cup {ProcPath(pid)}
    /\ IF os_stat(alive).type = "raise" THEN Finish(os_stat(alive)) ELSE Finish(Return(ret))
    /\ UNCHANGED <<handle, proc, mmvars, handles, op, kind, listing, inodes, ret, hit_enoent, fident, gens, net,
                   links>>

Next ==
    \/ Exit
    \/ \E newfds \in RecycledFdTabs : Recycle(newfds, {MainTid(pid)})
    \/ \E fd \in FdNames : CloseFd(fd)
    \/ \E k \in Kinds : conn_listdir(k)
    \/ conn_readlink
    \/ conn_scan
    \/ conn_stat

Spec == Init /\ [][Next]_vars

(***************************************************************************)
(* Process.threads().                                                      *)
(***************************************************************************)
OtherTids == {<<"7">>, <<"1", "0", "0">>}

TaskSets(p) == {{MainTid(p)} \cup X : X \in SUBSET OtherTids}

TaskPath(p, tid) == ProcPath(p) \o <<"/", "t", "a", "s", "k", "/">> \o tid \o <<"/", "s", "t", "a", "t">>

\* a thread other than the main one ends
ThreadExit(tid) ==
    /\ InCall
    /\ alive
    /\ tid \in tasks
    /\ tid # MainTid(pid)
    /\ tasks' = tasks \ {tid}
    /\ UNCHANGED <<alive, ident, fdtab, handle, pc, op, kind, raw, result, locals>>

AfterEntry(rest, loop, end) == IF rest = <<>> THEN end ELSE loop

\* os.listdir("/proc/%s/task" % self.pid); thread_ids.sort()
thr_listdir ==
    /\ pc = "idle"
    /\ op' = "threads"
    /\ touched' = touched \cup {ProcPath(pid) \o <<"/", "t", "a", "s", "k">>}
    /\ IF alive
       THEN /\ listing' = SortedSeq(tasks)
            /\ pc' = AfterEntry(SortedSeq(tasks), "topen", "tcheck")
            /\ gens' = {ident}
            /\ UNCHANGED <<raw, result>>
       ELSE /\ Finish(Raise("OSError", ENOENT))
            /\ UNCHANGED <<listing, gens>>
    /\ UNCHANGED <<handle, proc, mmvars, handles, kind, inodes, ret, hit_enoent, fident, net, links>>

\* open("/proc/%s/task/%s/stat"), with the ENOENT of a vanished thread
thr_open ==
    /\ pc = "topen"
    /\ op = "threads"
    /\ touched' = touched \cup {TaskPath(pid, Head(listing))}
    /\ IF alive /\ Head(listing) \in tasks
       THEN /\ fident' = ident
            /\ handles' = handles \cup {TaskPath(pid, Head(listing))}
            /\ pc' = "tread"
            /\ UNCHANGED <<hit_enoent, listing>>
       ELSE /\ hit_enoent' = TRUE
            /\ listing' = Tail(listing)
            /\ pc' = AfterEntry(Tail(listing), "topen", "tcheck")
            /\ UNCHANGED <<fident, handles>>
    /\ UNCHANGED <<handle, proc, mmvars, op, kind, inodes, ret, raw, result, gens, net, links>>

\* f.read() (ESRCH when the thread is gone), f.close(), the two fields,
\* retlist.append
thr_read ==
    /\ pc = "tread"
    /\ op = "threads"
    /\ handles' = f_close(handles, TaskPath(pid, Head(listing)))
    /\ IF alive /\ ident = fident /\ Head(listing) \in tasks
       THEN LET t == thread_times(ThreadStat(ident, Head(listing)))
            IN IF t.type = "raise"
               THEN /\ Finish(t)
                    /\ UNCHANGED <<ret, gens, listing>>
               ELSE /\ ret' = Append(ret, nt_proc_thread(int(Head(listing)),
                                                         t.value[1], t.value[2]))
                    /\ gens' = gens \cup {ident}
                    /\ listing' = Tail(listing)
                    /\ pc' = AfterEntry(Tail(listing), "topen", "tcheck")
                    /\ UNCHANGED <<raw, result>>
       ELSE /\ Finish(Raise("IOError", ESRCH))
            /\ UNCHANGED <<ret, gens, listing>>
    /\ UNCHANGED <<handle, proc, mmvars, op, kind, inodes, hit_enoent, fident, touched, net, links>>

\* "if hit_enoent: os.stat('/proc/%s' % self.pid)"; return retlist
\* (the end of threads and of open_files)
check_and_return ==
    /\ IF hit_enoent
       THEN /\ touched' = touched \cup {ProcPath(pid)}
            /\ IF os_stat(alive).type = "raise" THEN Finish(os_stat(alive))
               ELSE Finish(Return(ret))
       ELSE /\ Finish(Return(ret))
            /\ UNCHANGED touched
    /\ UNCHANGED <<handle, proc, mmvars, handles, op, kind, listing, inodes, ret, hit_enoent, fident, gens, net, links>>

thr_check ==
    /\ pc = "tcheck"
    /\ op = "threads"
    /\ check_and_return

InitThreads ==
    /\ pid = 42
    /\ byteorder = "little"
    /\ InitCall
    /\ fdtab = [fd \in FdNames |-> NoFd]
    /\ tasks \in IF alive THEN TaskSets(pid) ELSE {{}}

NextThreads ==
    \/ Exit
    \/ \E newtasks \in TaskSets(pid) : Recycle([fd \in FdNames |-> NoFd], newtasks)
    \/ \E tid \in OtherTids : ThreadExit(tid)
    \/ thr_listdir
    \/ thr_open
    \/ thr_read
    \/ thr_check

SpecThreads == InitThreads /\ [][NextThreads]_vars

(***************************************************************************)
(* Process.open_files().                                                   *)
(***************************************************************************)
\* os.listdir("/proc/%s/fd" % self.pid)
of_listdir ==
    /\ pc = "idle"
    /\ op' = "open_files"
    /\ touched' = touched \cup {FdDirPath(pid)}
    /\ IF alive
       THEN /\ \E order \in Orderings({fd \in FdNames : fdtab[fd] # NoFd}) :
                 /\ listing' = order
                 /\ pc' = AfterEntry(order, "islink", "ocheck")
            /\ gens' = {ident}
            /\ UNCHANGED <<raw, result>>
       ELSE /\ Finish(Raise("OSError", ENOENT))
            /\ UNCHANGED <<listing, gens>>
    /\ UNCHANGED <<handle, proc, mmvars, handles, kind, inodes, ret, hit_enoent, fident, net, links>>

\* os.path.islink(file): False for an entry that is gone
of_islink ==
    /\ pc = "islink"
    /\ op = "open_files"
    /\ touched' = touched \cup {FdPath(pid, Head(listing))}
    /\ IF alive /\ fdtab[Head(listing)] # NoFd
       THEN /\ pc' = "oreadlink"
            /\ UNCHANGED listing
       ELSE /\ listing' = Tail(listing)
            /\ pc' = AfterEntry(Tail(listing), "islink", "ocheck")
    /\ UNCHANGED <<handle, proc, mmvars, handles, op, kind, inodes, ret, hit_enoent, fident, raw, result,
                   gens, net, links>>

\* os.readlink(file), with the ENOENT of a vanished entry; the regular
\* files with an absolute path are appended
of_readlink ==
    /\ pc = "oreadlink"
    /\ op = "open_files"
    /\ LET fd == Head(listing)
           r == os_readlink(alive /\ fdtab[fd] # NoFd, fdtab[fd])
           file == r.value
       IN IF r.type = "return"
          THEN /\ IF startswith(file, <<"/">>) /\ isfile_strict(file)
                  THEN /\ ret' = Append(ret, nt_proc_file(file, int(fd)))
                       /\ gens' = gens \cup {ident}
                  ELSE UNCHANGED <<ret, gens>>
               /\ UNCHANGED hit_enoent
          ELSE /\ hit_enoent' = TRUE
               /\ UNCHANGED <<ret, gens>>
    /\ listing' = Tail(listing)
    /\ pc' = AfterEntry(Tail(listing), "islink", "ocheck")
    /\ UNCHANGED <<handle, proc, mmvars, handles, op, kind, inodes, fident, raw, result, touched, net, links>>

of_check ==
    /\ pc = "ocheck"
    /\ op = "open_files"
    /\ check_and_return

FileFdTabs == [FdNames -> {FileLink, DirLink, SocketLink(I101), NoFd}]

InitFiles ==
    /\ pid = 42
    /\ byteorder = "little"
    /\ InitCall
    /\ fdtab \in IF alive THEN FileFdTabs ELSE {[fd \in FdNames |-> NoFd]}
    /\ tasks = IF alive THEN {MainTid(pid)} ELSE {}

NextFiles ==
    \/ Exit
    \/ \E newfds \in {[fd \in FdNames |-> FileLink]} : Recycle(newfds, {MainTid(pid)})
    \/ \E fd \in FdNames : CloseFd(fd)
    \/ of_listdir
    \/ of_islink
    \/ of_readlink
    \/ of_check

SpecFiles == InitFiles /\ [][NextFiles]_vars

(***************************************************************************)
(* Any accessor under wrap_exceptions: the wrapped function returns or     *)
(* raises, the wrapper translates.                                         *)
(***************************************************************************)
Names == {"init", "sshd"}

Errnos == {ENOENT, ESRCH, EPERM, EACCES, EIO, None}

\* what a wrapped function can do: return a value, fail with an
\* EnvironmentError of some errno, fail with another exception
RawOutcomes ==
    {Return(v) : v \in {"r1", "r2", "r3"}}
    \cup {Raise(c, e) : c \in EnvironmentError, e \in Errnos}
    \cup {Raise(c, None) : c \in {"ValueError", "KeyError", "NotImplementedError"}}

\* the name the owner of the handle caches in _name
SetName(n) ==
    /\ pc = "idle"
    /\ name = None
    /\ name' = n
    /\ UNCHANGED <<pid, byteorder, proc, pc, op, kind, raw, result, locals>>

\* a call of a wrapped accessor whose function ends with the outcome out
CallAccessor(out) ==
    /\ pc = "idle"
    /\ op' = "accessor"
    /\ Finish(out)
    /\ UNCHANGED <<handle, proc, kind, locals>>

InitWrap ==
    /\ pid \in Pids
    /\ byteorder = "little"
    /\ InitCall
    /\ fdtab = [fd \in FdNames |-> NoFd]
    /\ tasks = IF alive THEN {MainTid(pid)} ELSE {}

NextWrap ==
    \/ \E n \in Names : SetName(n)
    \/ \E out \in RawOutcomes : CallAccessor(out)

SpecWrap == InitWrap /\ [][NextWrap]_vars

(***************************************************************************)
(* Process._decode_address on the tokens the kernel prints.                *)
(***************************************************************************)
\* "%02X" % b
hex_byte(b) == <<HexChars[(b \div 16) + 1], HexChars[(b % 16) + 1]>>

RECURSIVE hex_bytes(_)
hex_bytes(bs) == IF Len(bs) = 0 THEN <<>> ELSE hex_byte(bs[1]) \o hex_bytes(Tail(bs))

\* the kernel prints an address as its 32-bit words, each read in the byte
\* order of the host and printed with %08X: on a little-endian host the
\* least significant byte of a word, which is the first byte of the address
\* in network order, is listed last
RECURSIVE kernel_words(_, _)
kernel_words(ip, order) ==
    IF Len(ip) = 0 THEN <<>>
    ELSE LET w == SubSeq(ip, 1, 4)
         IN hex_bytes(IF order = "little" THEN Reversed(w) ELSE w)
            \o kernel_words(SubSeq(ip, 5, Len(ip)), order)

\* the token of /proc/net/* for an address (its bytes in network order) and
\* a port: the port is printed with %04X
kernel_token(ip, port, order) ==
    kernel_words(ip, order) \o <<":">> \o hex_byte(port \div 256) \o hex_byte(port % 256)

IPv4Addresses == {<<127, 0, 0, 1>>, <<10, 0, 0, 5>>, <<0, 0, 0, 0>>, <<192, 168, 1, 2>>}

IPv6Addresses ==
    {<<0, 0, 0, 0, 0, 0, 0, 0, 0, 0, 0, 0, 0, 0, 0, 1>>,
     <<0, 0, 0, 0, 0, 0, 0, 0, 0, 0, 255, 255, 127, 0, 0, 1>>,
     <<254, 128, 0, 0, 0, 0, 0, 0, 2, 26, 43, 255, 254, 60, 77, 94>>,
     <<32, 1, 13, 184, 0, 1, 0, 2, 0, 3, 0, 4, 0, 5, 0, 6>>}

Ports == {0, 22, 80, 40521, 65535}

\* an address part that is not a hexadecimal number
BadAddress == <<"Z", "Z">>

\* the calls of _decode_address of the model: the token of an address of
\* the family and a port, or a token whose address part is not decodable
DecodeInputs ==
    {[ip |-> ip, port |-> port, family |-> AF_INET, bad |-> bad] :
        ip \in IPv4Addresses, port \in Ports, bad \in BOOLEAN}
    \cup {[ip |-> ip, port |-> port, family |-> AF_INET6, bad |-> bad] :
            ip \in IPv6Addresses, port \in Ports, bad \in BOOLEAN}

\* the token of a call, as printed on a host of the given byte order
TokenOf(a, order) ==
    IF a.bad THEN BadAddress \o <<":">> \o hex_byte(a.port \div 256) \o hex_byte(a.port % 256)
    ELSE kernel_token(a.ip, a.port, order)

\* base64.b16decode accepts the string: an even number of digits 0-9 A-F
is_b16(t) == Len(t) % 2 = 0 /\ \A i \in 1..Len(t) : t[i] \in DOMAIN HexDigit

\* a call of _decode_address: b16decode raises TypeError on what is not
\* base 16, and is reached only when the port is not zero
decode_call(addr, family, order) ==
    LET parts == split(addr, ":")
    IN IF int16(parts[2]) # 0 /\ ~is_b16(parts[1]) THEN Raise("TypeError", None)
       ELSE Return(_decode_address(addr, family, order))

\* the static method is called
Decode ==
    /\ pc = "idle"
    /\ op' = "_decode_address"
    /\ raw' = decode_call(TokenOf(arg, byteorder), arg.family, byteorder)
    /\ result' = raw'
    /\ pc' = "done"
    /\ UNCHANGED <<handle, proc, kind, listing, inodes, ret, hit_enoent, fident, touched, gens,
                   net, links, mmvars, handles>>

InitDecode ==
    /\ pid = 42
    /\ byteorder \in {"little", "big"}
    /\ InitCallWith(DecodeInputs)
    /\ alive = TRUE
    /\ fdtab = [fd \in FdNames |-> NoFd]
    /\ tasks = {MainTid(pid)}

NextDecode == Decode

SpecDecode == InitDecode /\ [][NextDecode]_vars

(***************************************************************************)
(* Process.memory_maps(): a generator over the blocks of /proc/<pid>/smaps.*)
(* A line is the list of its columns (line.split()); the file is read one  *)
(* line at a time while the caller draws the region summaries.             *)
(***************************************************************************)
SmapsPath(p) == ProcPath(p) \o <<"/", "s", "m", "a", "p", "s">>

\* line.split(None, n): the first n columns, and the rest of the line as
\* one more field
split_max(cols, n) ==
    IF Len(cols) <= n + 1 THEN cols
    ELSE SubSeq(cols, 1, n) \o <<join(SubSeq(cols, n + 1, Len(cols)), <<" ">>)>>

\* the keys the summary reads
K_Rss == <<"R", "s", "s", ":">>
K_Size == <<"S", "i", "z", "e", ":">>
K_Pss == <<"P", "s", "s", ":">>
K_Shared_Clean == <<"S", "h", "a", "r", "e", "d", "_", "C", "l", "e", "a", "n", ":">>
K_Shared_Dirty == <<"S", "h", "a", "r", "e", "d", "_", "D", "i", "r", "t", "y", ":">>
K_Private_Clean == <<"P", "r", "i", "v", "a", "t", "e", "_", "C", "l", "e", "a", "n", ":">>
K_Private_Dirty == <<"P", "r", "i", "v", "a", "t", "e", "_", "D", "i", "r", "t", "y", ":">>
K_Referenced == <<"R", "e", "f", "e", "r", "e", "n", "c", "e", "d", ":">>
K_Anonymous == <<"A", "n", "o", "n", "y", "m", "o", "u", "s", ":">>
K_Swap == <<"S", "w", "a", "p", ":">>

KnownKeys ==
    <<K_Rss, K_Size, K_Pss, K_Shared_Clean, K_Shared_Dirty, K_Private_Clean, K_Private_Dirty,
      K_Referenced, K_Anonymous, K_Swap>>

K_VmFlags == <<"V", "m", "F", "l", "a", "g", "s", ":">>

ANON == <<"[", "a", "n", "o", "n", "]">>

\* d.get(k, default)
dget(d, k, default) == IF k \in DOMAIN d THEN d[k] ELSE default

nt_mmap_ext(addr, perms, path, stats) == [addr |-> addr, perms |-> perms, path |-> path, stats |-> stats]

\* a "Key: value kB" line: data[fields[0]] = int(fields[1]) * 1024, the
\* ValueError of a value that is not a number, the flags line skipped
stat_line(fields, d) ==
    IF Len(fields) < 2 THEN Raise("IndexError", None)
    ELSE IF IsInt(fields[2]) THEN Return(Put(d, fields[1], int(fields[2]) * 1024))
    ELSE IF startswith(fields[1], K_VmFlags) THEN Return(d)
    ELSE Raise("ValueError", None)

\* "new block section": the first field does not end with ':'
is_header(fields) == ~endswith(fields[1], <<":">>)

\* the body of "for header, data in get_blocks()": the summary of a block,
\* the ValueError of a header that has not 5 or 6 fields, the KeyError of
\* data['Rss:']
region(header, d) ==
    LET hfields == split_max(header, 5)
        path == IF Len(hfields) = 5 \/ hfields[6] = <<>> THEN ANON ELSE strip(hfields[6])
    IN IF Len(hfields) \notin {5, 6} THEN Raise("ValueError", None)
       ELSE IF K_Rss \notin DOMAIN d THEN Raise("KeyError", None)
       ELSE Return(nt_mmap_ext(hfields[1], hfields[2], path,
                               [i \in 1..Len(KnownKeys) |-> dget(d, KnownKeys[i], 0)]))

\* the except clauses of memory_maps: the translation of wrap_exceptions,
\* written out once more
mm_translate(out, p, n) ==
    IF out.type = "raise" /\ out.exc \in EnvironmentError
    THEN IF out.errno \in {ENOENT, ESRCH} THEN NoSuchProcess(p, n)
         ELSE IF out.errno \in {EPERM, EACCES} THEN AccessDenied(p, n)
         ELSE out
    ELSE out

\* the lines of the model
HeaderLib ==
    <<<<"1", "0", "-", "2", "0">>, <<"r", "-", "x", "p">>, <<"0">>, <<"0", "8", ":", "0", "1">>,
      <<"7">>, <<"/", "l", "i", "b">>>>

HeaderAnon ==
    <<<<"3", "0", "-", "4", "0">>, <<"r", "w", "-", "p">>, <<"0">>, <<"0", "0", ":", "0", "0">>,
      <<"0">>>>

HeaderLines == {HeaderLib, HeaderAnon}

StatLines ==
    {<<K_Rss, <<"4">>, <<"k", "B">>>>,
     <<K_Rss, <<"8">>, <<"k", "B">>>>,
     <<K_Swap, <<"4">>, <<"k", "B">>>>,
     <<<<"M", "M", "U", "P", "a", "g", "e", "S", "i", "z", "e", ":">>, <<"4">>, <<"k", "B">>>>,
     <<K_VmFlags, <<"r", "d">>, <<"e", "x">>>>,
     <<<<"N", "a", "m", "e", ":">>, <<"l", "i", "b", "c">>>>}

\* the lists of at most n lines
RECURSIVE LineSeqs(_, _)
LineSeqs(L, n) ==
    IF n = 0 THEN {<<>>}
    ELSE {<<>>} \cup {<<l>> \o rest : l \in L, rest \in LineSeqs(L, n - 1)}

\* the smaps files of the model: empty, or blocks that start with a header
SmapsFiles ==
    {<<>>} \cup {<<h>> \o rest : h \in HeaderLines,
                                 rest \in LineSeqs(HeaderLines \cup StatLines, MaxLines - 1)}

IsMaps == op = "memory_maps"

\* the end of the generator, by exhaustion, by an exception or by close()
mm_end(out) ==
    /\ raw' = out
    /\ result' = mm_translate(out, pid, name)
    /\ pc' = "done"

\* the first next(): open, first_line = f.readline(), and the end of the
\* generator on an empty file (f.close(), twice)
mm_open ==
    /\ pc = "idle"
    /\ op' = "memory_maps"
    /\ touched' = touched \cup {SmapsPath(pid)}
    /\ IF ~alive
       THEN /\ mm_end(Raise("IOError", ENOENT))
            /\ UNCHANGED <<handles, listing, current_block, data>>
       ELSE IF arg.smaps = <<>>
       THEN /\ handles' = f_close(f_close(handles \cup {SmapsPath(pid)}, SmapsPath(pid)),
                                  SmapsPath(pid))
            /\ current_block' = <<<<>>>>
            /\ mm_end(Return(ret))
            /\ UNCHANGED <<listing, data>>
       ELSE /\ handles' = handles \cup {SmapsPath(pid)}
            /\ current_block' = <<Head(arg.smaps)>>
            /\ listing' = Tail(arg.smaps)
            /\ data' = <<>>
            /\ pc' = "mloop"
            /\ UNCHANGED <<raw, result>>
    /\ UNCHANGED <<handle, proc, kind, inodes, ret, hit_enoent, fident, gens, net, links, arg>>

\* "yield (current_block.pop(), data)" and the summary the caller is given
\* for the block; an exception in the caller's loop body ends the generator
\* with the file closed
mm_yield ==
    LET r == region(Head(current_block), data)
    IN IF r.type = "raise"
       THEN /\ handles' = f_close(handles, SmapsPath(pid))
            /\ mm_end(r)
            /\ UNCHANGED <<ret, current_block>>
       ELSE /\ ret' = Append(ret, r.value)
            /\ current_block' = <<>>
            /\ pc' = "suspended"
            /\ UNCHANGED <<raw, result, handles>>

\* one turn of "for line in f" (a read that may fail with ESRCH once the
\* process is gone), or the end of the file
mm_line ==
    /\ pc = "mloop"
    /\ IsMaps
    /\ \E gone \in (IF alive THEN {FALSE} ELSE {FALSE, TRUE}) :
         IF gone
         THEN /\ handles' = f_close(handles, SmapsPath(pid))
              /\ mm_end(Raise("IOError", ESRCH))
              /\ UNCHANGED <<ret, current_block, listing, data>>
         ELSE IF listing = <<>> \/ is_header(split_max(Head(listing), 5))
         THEN /\ mm_yield
              /\ UNCHANGED <<listing, data>>
         ELSE LET r == stat_line(split_max(Head(listing), 5), data)
              IN IF r.type = "raise"
                 THEN /\ handles' = f_close(handles, SmapsPath(pid))
                      /\ mm_end(r)
                      /\ UNCHANGED <<ret, current_block, listing, data>>
                 ELSE /\ data' = r.value
                      /\ listing' = Tail(listing)
                      /\ UNCHANGED <<ret, current_block, raw, result, handles, pc>>
    /\ UNCHANGED <<handle, proc, op, kind, inodes, hit_enoent, fident, touched, gens, net, links,
                   arg>>

\* the caller asks for the next summary: after the yield of a block that a
\* header line ended, current_block.append(line) and the loop goes on; after
\* the last yield the generator ends with f.close(), twice
mm_resume ==
    /\ pc = "suspended"
    /\ IsMaps
    /\ IF listing = <<>>
       THEN /\ handles' = f_close(f_close(handles, SmapsPath(pid)), SmapsPath(pid))
            /\ mm_end(Return(ret))
            /\ UNCHANGED <<listing, current_block>>
       ELSE /\ current_block' = Append(current_block, Head(listing))
            /\ listing' = Tail(listing)
            /\ pc' = "mloop"
            /\ UNCHANGED <<raw, result, handles>>
    /\ UNCHANGED <<handle, proc, op, kind, inodes, ret, hit_enoent, fident, touched,
                   gens, net, links, arg, data>>

\* the caller drops the generator: GeneratorExit is raised at the yield, the
\* bare except closes the file and re-raises
mm_close ==
    /\ pc = "suspended"
    /\ IsMaps
    /\ handles' = f_close(handles, SmapsPath(pid))
    /\ mm_end(Raise("GeneratorExit", None))
    /\ UNCHANGED <<handle, proc, op, kind, listing, inodes, ret, hit_enoent, fident, touched,
                   gens, net, links, mmvars>>

InitMaps ==
    /\ pid = 42
    /\ byteorder = "little"
    /\ alive \in BOOLEAN
    /\ InitCallWith([smaps : SmapsFiles])
    /\ fdtab = [fd \in FdNames |-> NoFd]
    /\ tasks = IF alive THEN {MainTid(pid)} ELSE {}

NextMaps ==
    \/ Exit
    \/ mm_open
    \/ mm_line
    \/ mm_resume
    \/ mm_close

SpecMaps == InitMaps /\ [][NextMaps]_vars

(***************************************************************************)
(* The accessors that open one file of /proc/<pid>, read it and close it.  *)
(***************************************************************************)
StatPath(p) == ProcPath(p) \o <<"/", "s", "t", "a", "t">>

StatmPath(p) == ProcPath(p) \o <<"/", "s", "t", "a", "t", "m">>

StatusPath(p) == ProcPath(p) \o <<"/", "s", "t", "a", "t", "u", "s">>

CmdlinePath(p) == ProcPath(p) \o <<"/", "c", "m", "d", "l", "i", "n", "e">>

IoPath(p) == ProcPath(p) \o <<"/", "i", "o">>

\* the last place of c in s, 0 when there is none
RECURSIVE rfind_from(_, _, _)
rfind_from(s, c, i) ==
    IF i = 0 THEN 0 ELSE IF s[i] = c THEN i ELSE rfind_from(s, c, i - 1)

\* Python's s.rfind(c) + 1
rfind(s, c) == rfind_from(s, c, Len(s))

\* os.sysconf("SC_PAGE_SIZE")
PAGESIZE == 4096

\* the boot time of the host, in seconds since the epoch
BOOT_TIME == 1000

\* _psposix._get_terminal_map(): the device number of every terminal
TerminalMap == [n \in {4} |-> "/dev/tty4"]

nt_proc_cpu(utime, stime) == [user |-> utime, system |-> stime]

nt_proc_mem(rss, vms) == [rss |-> rss, vms |-> vms]

nt_proc_extmem(rss, vms, shared, text, lib, d, dirty) ==
    [rss |-> rss, vms |-> vms, shared |-> shared, text |-> text, lib |-> lib,
     data |-> d, dirty |-> dirty]

nt_proc_uids(real, effective, saved) == [real |-> real, effective |-> effective, saved |-> saved]

nt_proc_gids(real, effective, saved) == [real |-> real, effective |-> effective, saved |-> saved]

nt_proc_io(rcount, wcount, rbytes, wbytes) ==
    [read_count |-> rcount, write_count |-> wcount, read_bytes |-> rbytes,
     write_bytes |-> wbytes]

\* terminal: int(f.read().split(' ')[6]), then the name the map has for it
terminal_of(text) ==
    LET fields == split(text, " ")
    IN IF Len(fields) < 7 THEN Raise("IndexError", None)
       ELSE IF ~IsInt(fields[7]) THEN Raise("ValueError", None)
       ELSE IF int(fields[7]) \in DOMAIN TerminalMap
       THEN Return(TerminalMap[int(fields[7])])
       ELSE Return(None)

\* cpu_times: the fields after the first ')' of the text
cpu_times_of(text) ==
    LET st == strip(text)
        values == split(SubSeq(st, find(st, ")") + 2, Len(st)), " ")
    IN IF Len(values) < 12 THEN Raise("IndexError", None)
       ELSE IF ~IsInt(values[12]) THEN Raise("ValueError", None)
       ELSE IF Len(values) < 13 THEN Raise("IndexError", None)
       ELSE IF ~IsInt(values[13]) THEN Raise("ValueError", None)
       ELSE Return(nt_proc_cpu(ticks(values[12]), ticks(values[13])))

\* create_time: the fields after the last ')' of the text
create_time_of(text) ==
    LET st == strip(text)
        values == split(SubSeq(st, rfind(st, ")") + 2, Len(st)), " ")
    IN IF Len(values) < 20 THEN Raise("IndexError", None)
       ELSE IF ~IsInt(values[20]) THEN Raise("ValueError", None)
       ELSE Return([since_boot |-> ticks(values[20]), boot |-> BOOT_TIME])

\* memory_info: vms, rss = f.readline().split()[:2]
memory_info_of(line) ==
    LET c == SubSeq(line, 1, IF Len(line) < 2 THEN Len(line) ELSE 2)
    IN IF Len(c) # 2 THEN Raise("ValueError", None)
       ELSE IF ~IsInt(c[2]) \/ ~IsInt(c[1]) THEN Raise("ValueError", None)
       ELSE Return(nt_proc_mem(int(c[2]) * PAGESIZE, int(c[1]) * PAGESIZE))

\* ext_memory_info: the seven first columns of the line, in pages
ext_memory_info_of(line) ==
    LET c == SubSeq(line, 1, IF Len(line) < 7 THEN Len(line) ELSE 7)
    IN IF \E i \in 1..Len(c) : ~IsInt(c[i]) THEN Raise("ValueError", None)
       ELSE IF Len(c) # 7 THEN Raise("ValueError", None)
       ELSE Return(nt_proc_extmem(int(c[2]) * PAGESIZE, int(c[1]) * PAGESIZE,
                                  int(c[3]) * PAGESIZE, int(c[4]) * PAGESIZE,
                                  int(c[5]) * PAGESIZE, int(c[6]) * PAGESIZE,
                                  int(c[7]) * PAGESIZE))

\* "_, real, effective, saved, fs = line.split()" and the three int()
status_ids(line) ==
    IF Len(line) # 5 THEN Raise("ValueError", None)
    ELSE IF ~IsInt(line[2]) \/ ~IsInt(line[3]) \/ ~IsInt(line[4]) THEN Raise("ValueError", None)
    ELSE Return(<<int(line[2]), int(line[3]), int(line[4])>>)

\* the first line of the status file that starts with the key
RECURSIVE status_line(_, _)
status_line(lines, key) ==
    IF lines = <<>> THEN <<>>
    ELSE IF Head(lines) # <<>> /\ startswith(Head(lines)[1], key) THEN <<Head(lines)>>
    ELSE status_line(Tail(lines), key)

\* uids: the loop over the lines of the status file
uids_of(lines) ==
    LET found == status_line(lines, <<"U", "i", "d", ":">>)
    IN IF found = <<>> THEN Raise("NotImplementedError", None)
       ELSE LET ids == status_ids(found[1])
            IN IF ids.type = "raise" THEN ids
               ELSE Return(nt_proc_uids(ids.value[1], ids.value[2], ids.value[3]))

\* gids: the loop over the lines of the status file
gids_of(lines) ==
    LET found == status_line(lines, <<"G", "i", "d", ":">>)
    IN IF found = <<>> THEN Raise("NotImplementedError", None)
       ELSE LET ids == status_ids(found[1])
            IN IF ids.type = "raise" THEN ids
               ELSE Return(nt_proc_gids(ids.value[1], ids.value[2], ids.value[3]))

\* the byte that ends every argument of the cmdline file
NUL == "\\0"

\* cmdline: [x for x in f.read().split('\x00') if x]
cmdline_of(text) == Return(SelectSeq(split(text, NUL), LAMBDA x : x # <<>>))

\* io_counters: which counter a line sets, given the counters set so far
io_key(line, c) ==
    IF line = <<>> THEN None
    ELSE IF "rcount" \notin DOMAIN c /\ startswith(line[1], <<"s", "y", "s", "c", "r">>) THEN "rcount"
    ELSE IF "wcount" \notin DOMAIN c /\ startswith(line[1], <<"s", "y", "s", "c", "w">>) THEN "wcount"
    ELSE IF "rbytes" \notin DOMAIN c /\ startswith(line[1], <<"r", "e", "a", "d", "_", "b", "y", "t", "e", "s">>) THEN "rbytes"
    ELSE IF "wbytes" \notin DOMAIN c /\ startswith(line[1], <<"w", "r", "i", "t", "e", "_", "b", "y", "t", "e", "s">>) THEN "wbytes"
    ELSE None

\* io_counters: the loop over the lines and the check that follows it
RECURSIVE io_counters_of(_, _)
io_counters_of(lines, c) ==
    IF lines = <<>>
    THEN IF DOMAIN c # {"rcount", "wcount", "rbytes", "wbytes"}
         THEN Raise("NotImplementedError", None)
         ELSE Return(nt_proc_io(c["rcount"], c["wcount"], c["rbytes"], c["wbytes"]))
    ELSE LET line == Head(lines)
             k == io_key(line, c)
         IN IF k = None THEN io_counters_of(Tail(lines), c)
            ELSE IF Len(line) < 2 THEN Raise("IndexError", None)
            ELSE IF ~IsInt(line[2]) THEN Raise("ValueError", None)
            ELSE io_counters_of(Tail(lines), Put(c, k, int(line[2])))

\* the text of the stat file of the process
ProcStat ==
    StatLine(str(pid), arg.stat.comm, arg.stat.tty_nr, arg.stat.utime, arg.stat.stime,
             arg.stat.starttime)

\* f = open(path): the file is open, or the call ends with the error of a
\* process that is gone
acc_open(a, path) ==
    /\ pc = "idle"
    /\ op' = a
    /\ touched' = touched \cup {path}
    /\ IF alive
       THEN /\ handles' = handles \cup {path}
            /\ pc' = "body"
            /\ UNCHANGED <<raw, result>>
       ELSE /\ Finish(Raise("IOError", ENOENT))
            /\ UNCHANGED handles
    /\ UNCHANGED <<handle, proc, kind, listing, inodes, ret, hit_enoent, fident, gens, net,
                   links, mmvars>>

\* the try block and its finally: the read (ESRCH when the process is
\* gone, EIO when the kernel cannot produce the file), what the accessor
\* makes of the text, and f.close()
acc_body(a, path, out) ==
    /\ pc = "body"
    /\ op = a
    /\ handles' = f_close(handles, path)
    /\ \E failed \in BOOLEAN :
          Finish(IF ~alive THEN Raise("IOError", ESRCH)
                 ELSE IF failed THEN Raise("IOError", EIO)
                 ELSE out)
    /\ UNCHANGED <<handle, proc, op, kind, listing, inodes, ret, hit_enoent, fident, touched,
                   gens, net, links, mmvars>>

terminal ==
    \/ acc_open("terminal", StatPath(pid))
    \/ acc_body("terminal", StatPath(pid), terminal_of(ProcStat))

cpu_times ==
    \/ acc_open("cpu_times", StatPath(pid))
    \/ acc_body("cpu_times", StatPath(pid), cpu_times_of(ProcStat))

create_time ==
    \/ acc_open("create_time", StatPath(pid))
    \/ acc_body("create_time", StatPath(pid), create_time_of(ProcStat))

memory_info ==
    \/ acc_open("memory_info", StatmPath(pid))
    \/ acc_body("memory_info", StatmPath(pid), memory_info_of(arg.statm))

ext_memory_info ==
    \/ acc_open("ext_memory_info", StatmPath(pid))
    \/ acc_body("ext_memory_info", StatmPath(pid), ext_memory_info_of(arg.statm))

uids ==
    \/ acc_open("uids", StatusPath(pid))
    \/ acc_body("uids", StatusPath(pid), uids_of(arg.status))

gids ==
    \/ acc_open("gids", StatusPath(pid))
    \/ acc_body("gids", StatusPath(pid), gids_of(arg.status))

cmdline ==
    \/ acc_open("cmdline", CmdlinePath(pid))
    \/ acc_body("cmdline", CmdlinePath(pid), cmdline_of(arg.cmdline))

io_counters ==
    \/ acc_open("io_counters", IoPath(pid))
    \/ acc_body("io_counters", IoPath(pid), io_counters_of(arg.io, <<>>))

(***************************************************************************)
(* The stat accessors on the names a process can have.                     *)
(***************************************************************************)
\* command names: plain, with a space, with ')', with ") ", in parentheses
Comms ==
    {<<"a", "b">>, <<"a", " ", "b">>, <<"a", ")", "b">>, <<"a", ")", " ", "b">>, <<"(", "a", ")">>}

StatInputs ==
    [comm : Comms, tty_nr : {<<"0">>, <<"4">>}, utime : {<<"7">>, <<"3", "0">>},
     stime : {<<"9">>}, starttime : {<<"5", "0">>}]

InitStat ==
    /\ pid = 42
    /\ byteorder = "little"
    /\ alive \in BOOLEAN
    /\ InitCallWith([stat : StatInputs])
    /\ fdtab = [fd \in FdNames |-> NoFd]
    /\ tasks \in IF alive THEN TaskSets(pid) ELSE {{}}

NextStat ==
    \/ Exit
    \/ terminal
    \/ cpu_times
    \/ create_time
    \/ thr_listdir
    \/ thr_open
    \/ thr_read
    \/ thr_check

SpecStat == InitStat /\ [][NextStat]_vars

(***************************************************************************)
(* The record parsers on rows that end with columns of a newer kernel.     *)
(***************************************************************************)
\* the most columns a newer kernel adds to a row
MaxExtra == 1

\* a column a newer kernel adds at the end of a row
ExtraColumn == <<"7", "7">>

\* the columns a row can get at its end
ExtraColumns == {[i \in 1..n |-> ExtraColumn] : n \in 0..MaxExtra}

\* size resident shared text lib data dt
StatmLine == <<<<"3", "0", "0">>, <<"1", "2", "0">>, <<"4", "0">>, <<"1", "0">>, <<"0">>, <<"9", "0">>, <<"0">>>>

NameLine == <<<<"N", "a", "m", "e", ":">>, <<"a", "b">>>>

\* Uid: real effective saved fs
UidLine == <<<<"U", "i", "d", ":">>, <<"1", "0", "0", "0">>, <<"1", "0", "0", "1">>, <<"1", "0", "0", "2">>, <<"1", "0", "0", "3">>>>

GidLine == <<<<"G", "i", "d", ":">>, <<"1", "0", "0">>, <<"1", "0", "1">>, <<"1", "0", "2">>, <<"1", "0", "3">>>>

StatmInputs == {StatmLine \o e : e \in ExtraColumns}

StatusInputs == {<<NameLine, UidLine \o e, GidLine \o g>> : e \in ExtraColumns, g \in ExtraColumns}

\* the rows of a table, each with the columns a newer kernel adds
ExtraRowsOf(file) == {row \o e : row \in RowsOf(file), e \in ExtraColumns}

\* the table files of a scan with at most n rows in all
RECURSIVE ExtraScanInputs(_, _)
ExtraScanInputs(triples, n) ==
    IF triples = <<>> THEN {<<>>}
    ELSE UNION {{<<[state |-> "ok", lines |-> <<Header>> \o rows]>> \o rest :
                   rest \in ExtraScanInputs(Tail(triples), n - Len(rows))} :
                rows \in RowSeqs(ExtraRowsOf(Head(triples).file), n)}

ExtraKindInputs == [k \in ValidKinds |-> ExtraScanInputs(tmap[k], 1)]

InitRows ==
    /\ pid = 42
    /\ byteorder = "little"
    /\ alive \in BOOLEAN
    /\ InitCallWith([statm : StatmInputs, status : StatusInputs])
    /\ fdtab = IF alive
               THEN [fd \in FdNames |-> SocketLink(IF fd = <<"3">> THEN I101 ELSE I102)]
               ELSE [fd \in FdNames |-> NoFd]
    /\ tasks = IF alive THEN {MainTid(pid)} ELSE {}

NextRows ==
    \/ Exit
    \/ memory_info
    \/ ext_memory_info
    \/ uids
    \/ gids
    \/ \E k \in Kinds : conn_listdir(k)
    \/ conn_readlink
    \/ conn_scan_on(ExtraKindInputs)
    \/ conn_stat

SpecRows == InitRows /\ [][NextRows]_vars

(***************************************************************************)
(* Every accessor that opens a file, on every way its call can end.        *)
(***************************************************************************)
\* the io file: complete, without its last counter, with a bad number
IoInputs ==
    {<<<<<<"s", "y", "s", "c", "r", ":">>, <<"5">>>>, <<<<"s", "y", "s", "c", "w", ":">>, <<"6">>>>, <<<<"r", "e", "a", "d", "_", "b", "y", "t", "e", "s", ":">>, <<"4", "0", "9", "6">>>>, <<<<"w", "r", "i", "t", "e", "_", "b", "y", "t", "e", "s", ":">>, <<"8", "1", "9", "2">>>>>>,
     <<<<<<"s", "y", "s", "c", "r", ":">>, <<"5">>>>, <<<<"s", "y", "s", "c", "w", ":">>, <<"6">>>>, <<<<"r", "e", "a", "d", "_", "b", "y", "t", "e", "s", ":">>, <<"4", "0", "9", "6">>>>>>,
     <<<<<<"s", "y", "s", "c", "r", ":">>, <<"5">>>>, <<<<"s", "y", "s", "c", "w", ":">>, <<"x">>>>, <<<<"r", "e", "a", "d", "_", "b", "y", "t", "e", "s", ":">>, <<"4", "0", "9", "6">>>>, <<<<"w", "r", "i", "t", "e", "_", "b", "y", "t", "e", "s", ":">>, <<"8", "1", "9", "2">>>>>>}

CmdlineInputs == {<<"s", "h", NUL, "-", "c", NUL>>}

\* the files of a process nothing is unusual about
PlainFiles ==
    [stat |-> [comm |-> <<"a", "b">>, tty_nr |-> <<"4">>, utime |-> <<"7">>, stime |-> <<"9">>,
               starttime |-> <<"5", "0">>],
     statm |-> StatmLine,
     status |-> <<NameLine, UidLine, GidLine>>,
     io |-> CHOOSE f \in IoInputs : io_counters_of(f, <<>>).type = "return",
     cmdline |-> CHOOSE c \in CmdlineInputs : TRUE,
     smaps |-> <<>>]

\* the files of a process of which one is not plain
HandleInputs ==
    {[PlainFiles EXCEPT !.stat = x] : x \in StatInputs}
    \cup {[PlainFiles EXCEPT !.statm = x] : x \in StatmInputs \cup {<<>>}}
    \cup {[PlainFiles EXCEPT !.status = x] : x \in StatusInputs \cup {<<NameLine>>}}
    \cup {[PlainFiles EXCEPT !.io = x] : x \in IoInputs}
    \cup {[PlainFiles EXCEPT !.smaps = x] : x \in {f \in SmapsFiles : Len(f) <= 3}}

InitHandles ==
    /\ pid = 42
    /\ byteorder = "little"
    /\ alive \in BOOLEAN
    /\ \/ /\ InitCallWith(HandleInputs)
          /\ fdtab = [fd \in FdNames |-> NoFd]
          /\ tasks = IF alive THEN {MainTid(pid)} ELSE {}
       \/ /\ InitCallWith({PlainFiles})
          /\ fdtab = IF alive THEN [fd \in FdNames |-> SocketLink(I101)]
                     ELSE [fd \in FdNames |-> NoFd]
          /\ tasks \in IF alive THEN TaskSets(pid) ELSE {{}}

NextHandles ==
    \/ Exit
    \/ \E tid \in OtherTids : ThreadExit(tid)
    \/ terminal
    \/ cpu_times
    \/ create_time
    \/ memory_info
    \/ ext_memory_info
    \/ uids
    \/ gids
    \/ cmdline
    \/ io_counters
    \/ mm_open
    \/ mm_line
    \/ mm_resume
    \/ mm_close
    \/ thr_listdir
    \/ thr_open
    \/ thr_read
    \/ thr_check
    \/ \E k \in Kinds : conn_listdir(k)
    \/ conn_readlink
    \/ conn_scan_on(FaultyKindInputs)
    \/ conn_stat

SpecHandles == InitHandles /\ [][NextHandles]_vars

(***************************************************************************)
(* connections on a host where a protocol table may be missing or          *)
(* unreadable.                                                             *)
(***************************************************************************)
NextFaulty ==
    \/ Exit
    \/ \E k \in Kinds : conn_listdir(k)
    \/ conn_readlink
    \/ conn_scan_on(FaultyKindInputs)
    \/ conn_stat

SpecFaulty == Init /\ [][NextFaulty]_vars

(***************************************************************************)
(* Properties.                                                             *)
(***************************************************************************)
IsConnDone == op = "connections" /\ pc = "done"

IsNoSuchProcess(r) ==
    r.type = "raise" /\ r.exc = "NoSuchProcess" /\ r.pid = pid /\ r.name = name

IsAccessDenied(r) ==
    r.type = "raise" /\ r.exc = "AccessDenied" /\ r.pid = pid /\ r.name = name

\* C1: under wrap_exceptions, an EnvironmentError (OSError, IOError) with
\* errno ENOENT or ESRCH becomes NoSuchProcess with the handle's pid and
\* name, one with errno EPERM or EACCES becomes AccessDenied, every other
\* exception reaches the caller unchanged, and a returned value is returned
\* unchanged.
C1_Translation ==
    (op = "accessor" /\ pc = "done") =>
        IF raw.type = "return" THEN result = raw
        ELSE IF raw.exc \in {"OSError", "IOError"} /\ raw.errno \in {"ENOENT", "ESRCH"}
        THEN IsNoSuchProcess(result)
        ELSE IF raw.exc \in {"OSError", "IOError"} /\ raw.errno \in {"EPERM", "EACCES"}
        THEN IsAccessDenied(result)
        ELSE result = raw

C1_Witness ==
    /\ op = "accessor" /\ pc = "done"
    /\ raw = Raise("IOError", "ESRCH")
    /\ name = "sshd"
    /\ IsNoSuchProcess(result)

\* C2: connections(kind) with a kind outside the eleven valid ones fails
\* with ValueError whatever the state of the process, and before any file or
\* directory is listed, resolved or opened.
C2_InvalidKindFailsFirst ==
    (op = "connections" /\ kind \notin ValidKinds) =>
        /\ touched = {}
        /\ pc = "done" => (result.type = "raise" /\ result.exc = "ValueError")

\* C3: in connections, when /proc/<pid> is absent at the check that follows
\* the scan of the tables, the call fails with NoSuchProcess and the rows
\* gathered are not returned.
C3_GoneAfterScan ==
    (IsConnDone /\ ProcPath(pid) \in touched /\ ~alive) => IsNoSuchProcess(result)

C3_Witness ==
    /\ IsConnDone /\ ProcPath(pid) \in touched /\ ~alive
    /\ Len(ret) > 0
    /\ IsNoSuchProcess(result)

\* C4: connections, threads and open_files never return a list (not even an
\* empty one) when /proc/<pid> is absent at the moment the call ends.
C4_NoListWhenGone ==
    (op \in {"connections", "threads", "open_files"} /\ pc = "done" /\ result.type = "return")
        => alive

\* C5: connections and threads never return a result built from reads of
\* two processes that owned the pid one after the other.
C5_OneIdentity ==
    (op \in {"connections", "threads"} /\ pc = "done" /\ result.type = "return"
     /\ Len(result.value) > 0)
        => Cardinality(gens) <= 1

C6_IsSocket(target) == \E n \in {I101, I102} : target = SocketLink(n)

C6_Inode(target) == CHOOSE n \in {I101, I102} : target = SocketLink(n)

\* os.readlink never makes connections fail: an OSError reaches the caller
\* only from the listing of the directory or from the final check
C6_NoFailure ==
    /\ (op = "connections" /\ pc \in {"readlink", "scan"}) => result = NoResult
    /\ (IsConnDone /\ raw.type = "raise" /\ raw.exc = "OSError")
          => (links = <<>> \/ ProcPath(pid) \in touched)

\* C6 as stated: a vanished entry is skipped without a failure and every
\* other entry whose target is socket:[N] is recorded as N -> that descriptor.
C6_EveryEntryRecorded ==
    /\ C6_NoFailure
    /\ op = "connections" =>
         \A i \in 1..Len(links) :
            C6_IsSocket(links[i].target) =>
               /\ C6_Inode(links[i].target) \in DOMAIN inodes
               /\ inodes[C6_Inode(links[i].target)] = links[i].fd

\* C6, amended: a vanished entry is skipped without a failure, and the dict
\* holds, for every inode N met in a target socket:[N], the descriptor that
\* was resolved last among those with that target, and nothing else.
C6_LastEntryRecorded ==
    /\ C6_NoFailure
    /\ op = "connections" =>
         /\ DOMAIN inodes =
               {C6_Inode(links[i].target) : i \in {j \in 1..Len(links) : C6_IsSocket(links[j].target)}}
         /\ \A i \in 1..Len(links) :
               (/\ C6_IsSocket(links[i].target)
                /\ \A j \in (i + 1)..Len(links) : links[j].target # links[i].target)
               => inodes[C6_Inode(links[i].target)] = links[i].fd

C6_Witness ==
    /\ op = "connections" /\ pc = "scan" /\ result = NoResult
    /\ \E i, j \in 1..Len(links) :
          /\ links[i].target = NoFd
          /\ C6_IsSocket(links[j].target)
          /\ inodes[C6_Inode(links[j].target)] = links[j].fd

\* the triples the kinds stand for
ClaimTriples(k) ==
    CASE k = "tcp4" -> {tcp4}
      [] k = "tcp6" -> {tcp6}
      [] k = "udp4" -> {udp4}
      [] k = "udp6" -> {udp6}
      [] k = "unix" -> {unix}
      [] k = "tcp" -> {tcp4, tcp6}
      [] k = "udp" -> {udp4, udp6}
      [] k = "inet" -> {tcp4, tcp6, udp4, udp6}
      [] k = "inet4" -> {tcp4, udp4}
      [] k = "inet6" -> {tcp6, udp6}
      [] k = "all" -> {tcp4, tcp6, udp4, udp6, unix}
      [] OTHER -> {}

TableOrder == <<tcp4, tcp6, udp4, udp6, unix>>

\* the rows the scan read in a table: the lines after the header
DataRows(file) ==
    IF file \in DOMAIN net /\ net[file].state = "ok" /\ Len(net[file].lines) > 0
    THEN Tail(net[file].lines)
    ELSE <<>>

InodeColumn(t, row) == IF t.family = AF_UNIX THEN row[7] ELSE row[10]

\* the rows of a list whose inode is a key of the dict, each with its table
RECURSIVE MatchingRows(_, _)
MatchingRows(t, rows) ==
    IF rows = <<>> THEN <<>>
    ELSE (IF InodeColumn(t, Head(rows)) \in DOMAIN inodes
          THEN <<[table |-> t, row |-> Head(rows)]>>
          ELSE <<>>) \o MatchingRows(t, Tail(rows))

\* the matching rows of the tables of a kind, in table order and row order
RECURSIVE ExpectedRows(_, _)
ExpectedRows(k, i) ==
    IF i > Len(TableOrder) THEN <<>>
    ELSE (IF TableOrder[i] \in ClaimTriples(k)
          THEN MatchingRows(TableOrder[i], DataRows(TableOrder[i].file))
          ELSE <<>>) \o ExpectedRows(k, i + 1)

\* the number a descriptor name stands for
FdNumber(fdname) == CHOOSE n \in 0..99 : str(n) = fdname

\* C7: for a valid kind, connections returns one record for every row of
\* the selected tables whose inode is a key of the dict and no other record,
\* in table order (tcp, tcp6, udp, udp6, unix) and row order, each with the
\* number of the descriptor the dict holds for the inode of its row.
C7_OneRecordPerMatchingRow ==
    (IsConnDone /\ kind \in ValidKinds /\ result.type = "return") =>
        LET e == ExpectedRows(kind, 1)
        IN /\ Len(result.value) = Len(e)
           /\ \A i \in 1..Len(e) :
                 /\ result.value[i].fd = FdNumber(inodes[InodeColumn(e[i].table, e[i].row)])
                 /\ result.value[i].family = e[i].table.family
                 /\ e[i].table.family # AF_UNIX => result.value[i].type = e[i].table.type

C7_Witness ==
    /\ IsConnDone /\ kind = "all" /\ result.type = "return"
    /\ Len(result.value) = 2
    /\ result.value[1].family = AF_INET6 /\ result.value[1].fd = 12
    /\ result.value[2].family = AF_UNIX /\ result.value[2].fd = 3

\* C8: a record of a row of a TCP table carries the name TCP_STATUSES gives
\* to the state code of the row, a record of a UDP or UNIX row carries
\* CONN_NONE, and a matching TCP row never makes the call fail for want of a
\* name.
C8_StatusOfRecord ==
    IsConnDone =>
        /\ ~(raw.type = "raise" /\ raw.exc = "KeyError")
        /\ (kind \in ValidKinds /\ result.type = "return") =>
              LET e == ExpectedRows(kind, 1)
              IN \A i \in 1..Len(result.value) :
                    /\ i <= Len(e)
                    /\ IF e[i].table \in {tcp4, tcp6}
                       THEN /\ result.value[i].status = TCP_STATUSES[e[i].row[4]]
                            /\ result.value[i].status # "NONE"
                       ELSE result.value[i].status = "NONE"

C8_Witness ==
    /\ IsConnDone /\ result.type = "return"
    /\ Len(result.value) = 2
    /\ result.value[1].family = AF_INET /\ result.value[1].type = SOCK_STREAM
    /\ result.value[1].status = "LISTEN"
    /\ result.value[2].family = AF_INET /\ result.value[2].type = SOCK_DGRAM
    /\ result.value[2].status = "NONE"

\* C9: when the dict built from the descriptor directory is empty,
\* connections returns the empty list at once: no protocol table is opened
\* and nothing else is read.
C9_EmptyDictReturnsAtOnce ==
    (IsConnDone /\ DOMAIN inodes = {}) =>
        /\ \A t \in {tcp4, tcp6, udp4, udp6, unix} : NetPath(t.file) \notin touched
        /\ ProcPath(pid) \notin touched
        /\ \/ result = Return(<<>>)
           \/ (links = <<>> /\ ~alive /\ IsNoSuchProcess(result))

C9_Witness ==
    /\ IsConnDone /\ DOMAIN inodes = {} /\ kind \in ValidKinds
    /\ Len(links) = 2
    /\ result = Return(<<>>)

\* C10: connections accepts the eleven kinds and no other, a call that gets
\* to the final check has scanned the tables of the triples of its kind and
\* no other, and every record returned has the family and the type of one of
\* these triples (the UNIX triple names no type).
C10_KindTable ==
    (IsConnDone /\ result.type = "return") =>
        /\ kind \in ValidKinds
        /\ ProcPath(pid) \in touched => DOMAIN net = {t.file : t \in ClaimTriples(kind)}
        /\ \A i \in 1..Len(result.value) :
              \E t \in ClaimTriples(kind) :
                 /\ result.value[i].family = t.family
                 /\ t.family # AF_UNIX => result.value[i].type = t.type

IsDecodeDone == op = "_decode_address" /\ pc = "done"

\* C11: _decode_address returns the empty result () for every token whose
\* port part is 0000, for both families and both byte orders, whatever the
\* address part holds (a decodable address or not), and never returns a
\* pair whose port is 0.
C11_ZeroPort ==
    IsDecodeDone =>
        /\ arg.port = 0 => result = Return(<<>>)
        /\ (result.type = "return" /\ result.value # <<>>) => result.value[2] # 0

\* a token with port 0000 and an address part that is not hexadecimal was
\* decoded to () for IPv6 on a big-endian host
C11_Witness ==
    /\ IsDecodeDone
    /\ arg.port = 0
    /\ arg.bad
    /\ arg.family = AF_INET6
    /\ byteorder = "big"
    /\ result = Return(<<>>)

\* byte j of the address part of a token
C12_TokenByte(t, j) == 16 * HexDigit[t[2 * j - 1]] + HexDigit[t[2 * j]]

\* the address bytes the claim describes: those of the token, reversed
\* within each 4-byte word on a little-endian host, as they are on a
\* big-endian host
C12_AddressBytes(t, n, order) ==
    [i \in 1..n |->
        IF order = "little"
        THEN C12_TokenByte(t, 4 * ((i - 1) \div 4) + 4 - ((i - 1) % 4))
        ELSE C12_TokenByte(t, i)]

\* C12: for every IPv4 and IPv6 address and every port other than 0,
\* decoding the kernel's token for (address, port) gives back the address
\* and the port, on a little-endian and on a big-endian host; the address
\* is made of the token's bytes reversed within each 4-byte word on a
\* little-endian host and taken as they are on a big-endian host, and the
\* port is the last four hexadecimal digits read most significant first.
C12_RoundTrip ==
    (IsDecodeDone /\ ~arg.bad /\ arg.port # 0) =>
        LET t == TokenOf(arg, byteorder)
            n == Len(arg.ip)
        IN /\ result = Return(<<inet_ntop(arg.family, arg.ip), arg.port>>)
           /\ result.value[1] = inet_ntop(arg.family, C12_AddressBytes(t, n, byteorder))
           /\ result.value[2] = 4096 * HexDigit[t[2 * n + 2]] + 256 * HexDigit[t[2 * n + 3]]
                                + 16 * HexDigit[t[2 * n + 4]] + HexDigit[t[2 * n + 5]]

\* "0100007F:0050" was decoded to (127.0.0.1, 80) for IPv4 on a
\* little-endian host
C12_Witness ==
    /\ IsDecodeDone
    /\ byteorder = "little"
    /\ arg.family = AF_INET
    /\ TokenOf(arg, byteorder) = <<"0", "1", "0", "0", "0", "0", "7", "F", ":", "0", "0", "5", "0">>
    /\ result = Return(<<<<127, 0, 0, 1>>, 80>>)

IsMapsDone == IsMaps /\ pc = "done"

\* the places of the header lines of a memory-map file
HeaderPlaces(file) == {i \in 1..Len(file) : is_header(split_max(file[i], 5))}

\* the place of the k-th header line
RECURSIVE NthHeader(_, _)
NthHeader(file, k) ==
    LET first == CHOOSE i \in HeaderPlaces(file) : \A j \in HeaderPlaces(file) : i <= j
    IN IF k = 1 THEN first
       ELSE first + NthHeader(SubSeq(file, first + 1, Len(file)), k - 1)

\* the places of the statistic lines of the k-th block: those between its
\* header and the next one
BlockPlaces(file, k) ==
    LET h == NthHeader(file, k)
    IN {i \in (h + 1)..Len(file) :
          /\ i \notin HeaderPlaces(file)
          /\ \A j \in HeaderPlaces(file) : j > h => i < j}

\* the places of the lines of the k-th block that give a value to a key
KeyPlaces(file, k, key) ==
    {i \in BlockPlaces(file, k) : Len(file[i]) >= 2 /\ file[i][1] = key /\ IsInt(file[i][2])}

\* the statistics the lines of the k-th block give: for each known key the
\* value of its last line in the block, in bytes, and 0 without such a line
BlockStats(file, k) ==
    [j \in 1..Len(KnownKeys) |->
        LET P == KeyPlaces(file, k, KnownKeys[j])
        IN IF P = {} THEN 0
           ELSE 1024 * int(file[CHOOSE i \in P : \A q \in P : q <= i][2])]

\* the summary of the k-th block of a file
BlockSummary(file, k) ==
    LET h == file[NthHeader(file, k)]
    IN nt_mmap_ext(h[1], h[2], IF Len(h) >= 6 THEN h[6] ELSE ANON, BlockStats(file, k))

\* C13: in every region summary, each known statistic key that has no line
\* in that block is reported as 0, whatever the earlier blocks of the file
\* hold; in particular the absence of a key is not an error.
C13_AbsentKeyIsZero ==
    IsMaps =>
        /\ \A k \in 1..Len(ret) : \A j \in 1..Len(KnownKeys) :
              KeyPlaces(arg.smaps, k, KnownKeys[j]) = {} => ret[k].stats[j] = 0
        /\ ~(raw.type = "raise" /\ raw.exc = "KeyError")

\* C14: a call of memory_maps that is drawn to its end yields exactly one
\* summary per header line of the file, in file order (none for an empty
\* file), each with the address range, the permissions and the path (or
\* the anonymous marker) of its own header and the statistics of the lines
\* between that header and the next.
C14_OneSummaryPerHeader ==
    (IsMapsDone /\ raw.type = "return") =>
        /\ Len(ret) = Cardinality(HeaderPlaces(arg.smaps))
        /\ \A k \in 1..Len(ret) : ret[k] = BlockSummary(arg.smaps, k)

\* a line with an unknown key or with a value that is not a number
IsSkippable(line) ==
    /\ ~is_header(line)
    /\ Len(line) >= 2
    /\ (~IsInt(line[2]) \/ \A j \in 1..Len(KnownKeys) : line[1] # KnownKeys[j])

\* C15: a statistic line whose key is not a known key, or whose value is
\* not a number, is skipped: the call does not fail on it.
C15_SkippedLineNoError ==
    (IsMapsDone /\ \E i \in 1..Len(arg.smaps) : IsSkippable(arg.smaps[i])) =>
        ~(raw.type = "raise" /\ raw.exc \in {"ValueError", "IndexError", "TypeError"})

\* a call of a stat accessor that ended without an I/O failure
IsStatDone(a) ==
    /\ pc = "done"
    /\ op = a
    /\ ~(raw.type = "raise" /\ raw.exc \in EnvironmentError)

\* the terminal the map has for the terminal id of the record
TerminalOfRecord ==
    IF int(arg.stat.tty_nr) \in DOMAIN TerminalMap THEN TerminalMap[int(arg.stat.tty_nr)]
    ELSE None

\* C17: for every process name, names with ')', '(' or spaces included,
\* cpu_times returns the user and kernel ticks of the stat record,
\* create_time its start time, terminal the terminal of its terminal id,
\* and threads the user and kernel ticks of the record of every thread.
C17_FieldsOfRecord ==
    /\ IsStatDone("cpu_times") =>
          result = Return(nt_proc_cpu(ticks(arg.stat.utime), ticks(arg.stat.stime)))
    /\ IsStatDone("create_time") =>
          result = Return([since_boot |-> ticks(arg.stat.starttime), boot |-> BOOT_TIME])
    /\ IsStatDone("terminal") => result = Return(TerminalOfRecord)
    /\ IsStatDone("threads") =>
          /\ result.type = "return" \/ IsNoSuchProcess(result)
          /\ \A i \in 1..Len(ret) :
                /\ ret[i].user_time = ticks(str(10 * ident))
                /\ ret[i].system_time = ticks(str(10 * ident + 1))

\* a row without the columns a newer kernel added
BaseRow(row) == SelectSeq(row, LAMBDA c : c # ExtraColumn)

\* a table file without the columns a newer kernel added
BaseFile(f) == [state |-> f.state, lines |-> [i \in 1..Len(f.lines) |-> BaseRow(f.lines[i])]]

\* the status file without the columns a newer kernel added
BaseStatus == [i \in 1..Len(arg.status) |-> BaseRow(arg.status[i])]

\* a call of a parser of rows that ended without an I/O failure
IsRowsDone(a) ==
    /\ pc = "done"
    /\ op = a
    /\ ~(raw.type = "raise" /\ raw.exc \in EnvironmentError)

\* C18: columns added at the end of a row of an IP table, of a row of the
\* UNIX table, of the statm line or of the Uid or Gid line cause no
\* failure, and the parsed result is the result for the row without them.
C18_ExtraColumnsAccepted ==
    /\ IsRowsDone("memory_info") => raw = memory_info_of(BaseRow(arg.statm))
    /\ IsRowsDone("ext_memory_info") => raw = ext_memory_info_of(BaseRow(arg.statm))
    /\ IsRowsDone("uids") => raw = uids_of(BaseStatus)
    /\ IsRowsDone("gids") => raw = gids_of(BaseStatus)
    /\ (op = "connections" /\ pc = "stat") =>
          ret = scan_tables(tmap[kind], [i \in 1..Len(tmap[kind]) |-> BaseFile(net[tmap[kind][i].file])],
                            inodes, byteorder, <<>>).out.value
    /\ (IsRowsDone("connections") /\ kind \in ValidKinds) => raw.type = "return"

\* the ways a call can end: a value, a translated failure, an untranslated
\* I/O failure, a parse error
EndOfCall ==
    CASE raw.type = "return" -> "return"
      [] raw.type = "raise" /\ raw.exc \in EnvironmentError /\ result # raw -> "translated"
      [] raw.type = "raise" /\ raw.exc \in EnvironmentError /\ result = raw -> "untranslated"
      [] raw.type = "raise" -> raw.exc
      [] OTHER -> "none"

\* C16: when a call of an accessor has ended, however it ended (a value, an
\* early return from a read loop, a parse error, a translated or an
\* untranslated I/O failure, the generator of memory_maps closed by its
\* caller), no file the call opened is still open.
C16_HandlesClosed == pc = "done" => handles = {}

\* a call of memory_maps that a bad line ended after the file was opened and
\* a statistic was read from it
C16_Witness ==
    /\ pc = "done"
    /\ op = "memory_maps"
    /\ EndOfCall = "ValueError"
    /\ data # <<>>
    /\ SmapsPath(pid) \in touched
    /\ handles = {}

\* C19: connections raises NoSuchProcess only when the process was gone at
\* some moment of the call; a protocol table that is missing or unreadable
\* while the process is alive never gives NoSuchProcess.
C19_NoSuchProcessOnlyWhenGone ==
    (IsConnDone /\ IsNoSuchProcess(result)) => ~alive

\* the scan met a table that does not exist, and every table it could not
\* open is an IPv6 table that does not exist
IPv6Absent ==
    /\ op = "connections"
    /\ \E f \in DOMAIN net : net[f].state = ENOENT
    /\ \A f \in DOMAIN net : net[f].state # "ok" => (net[f].state = ENOENT /\ endswith(f, <<"6">>))

\* the tables of a kind that exist
PresentTables(k) == SelectSeq(tmap[k], LAMBDA t : net[t.file].state = "ok")

\* the records of the tables of a kind that exist, in table order
PresentRecords(k) ==
    scan_tables(PresentTables(k), [i \in 1..Len(PresentTables(k)) |-> net[PresentTables(k)[i].file]],
                inodes, byteorder, <<>>).out

\* C20: when an IPv6 table does not exist, the scan does not fail on it: it
\* goes on with the tables that follow, the list it builds holds the records
\* of the tables that exist, in their usual order, and the call does not end
\* with the I/O failure of the missing table.
C20_AbsentIPv6Skipped ==
    IPv6Absent =>
        /\ pc \in {"stat", "done"}
        /\ DOMAIN net = {tmap[kind][i].file : i \in 1..Len(tmap[kind])}
        /\ PresentRecords(kind).type = "return"
        /\ ret = PresentRecords(kind).value
        /\ pc = "done" => \/ raw = Return(ret)
                          \/ ~alive /\ raw = Raise("OSError", ENOENT)

\* connections("all") on a host without IPv6 returned a UDP record, read
\* after the two tables that do not exist
C20_Witness ==
    /\ IsConnDone
    /\ kind = "all"
    /\ IPv6Absent
    /\ net[tcp6.file].state = ENOENT
    /\ net[udp6.file].state = ENOENT
    /\ raw.type = "return"
    /\ \E i \in 1..Len(raw.value) :
          raw.value[i].family = AF_INET /\ raw.value[i].type = SOCK_DGRAM

\* the readlinks of the call that found a socket
SocketLinks == {j \in 1..Len(links) : C6_IsSocket(links[j].target)}

\* the rows of a list whose inode a readlink of the call found in a socket
\* target, each with its table
RECURSIVE RowsOfSockets(_, _)
RowsOfSockets(t, rows) ==
    IF rows = <<>> THEN <<>>
    ELSE (IF \E j \in SocketLinks : links[j].target = SocketLink(InodeColumn(t, Head(rows)))
          THEN <<[table |-> t, row |-> Head(rows)]>>
          ELSE <<>>) \o RowsOfSockets(t, Tail(rows))

\* those rows over the tables of a kind, in table order and row order
RECURSIVE SocketRows(_, _)
SocketRows(k, i) ==
    IF i > Len(TableOrder) THEN <<>>
    ELSE (IF TableOrder[i] \in ClaimTriples(k)
          THEN RowsOfSockets(TableOrder[i], DataRows(TableOrder[i].file))
          ELSE <<>>) \o SocketRows(k, i + 1)

\* C21: connections returns exactly one record for every table row whose
\* inode is the inode of a socket:[inode] target that a readlink of the call
\* found, also when several descriptors have that target, and the descriptor
\* number of the record is the descriptor whose readlink found that target
\* last.
C21_DescriptorOfSocket ==
    (IsConnDone /\ kind \in ValidKinds /\ result.type = "return") =>
        LET e == SocketRows(kind, 1)
        IN /\ Len(result.value) = Len(e)
           /\ \A i \in 1..Len(e) :
                 \E j \in SocketLinks :
                    /\ links[j].target = SocketLink(InodeColumn(e[i].table, e[i].row))
                    /\ \A n \in SocketLinks : links[n].target = links[j].target => n <= j
                    /\ result.value[i].fd = FdNumber(links[j].fd)

\* two descriptors were resolved to the same socket and the one row of that
\* socket gave one record, with the descriptor resolved last
C21_Witness ==
    /\ IsConnDone /\ result.type = "return"
    /\ Len(links) = 2
    /\ links[1].target = SocketLink(I101)
    /\ links[2].target = SocketLink(I101)
    /\ links[1].fd # links[2].fd
    /\ Len(result.value) = 1
    /\ result.value[1].fd = FdNumber(links[2].fd)
====
